---- MODULE Spec2Model ----
(***************************************************************************)
(* The command engine of path.jerryio: CommandHistory (execute, commit,    *)
(* undo, redo, save, isModified, clearHistory) and the command catalog of  *)
(* src/types/Command.tsx acting on the path / segment / control / keyframe *)
(* graph.                                                                  *)
(*                                                                         *)
(* Objects are heap cells named by their index: a control, a segment, a    *)
(* keyframe and a path are numbers, and "the same object" is "the same     *)
(* number".  Array indices recorded by the code are kept 0-based, and -1   *)
(* is indexOf's "not found", as in the source.                             *)
(***************************************************************************)
EXTENDS Integers, Sequences, FiniteSets, TLC

VARIABLES
    geo,             \* the heap: app.paths and every Path, Segment, Control, Keyframe
    lastExecution,   \* CommandHistory.lastExecution (the pending entry) or None
    history,         \* CommandHistory.history (undo stack)
    redoHistory,     \* CommandHistory.redoHistory (redo stack)
    saveStepCounter, \* CommandHistory.saveStepCounter
    now,             \* the clock Date.now() reads
    obs,             \* what the last call did (its name, results, expectations)
    track            \* bookkeeping of the run: serial numbers, events since save()

vars == <<geo, lastExecution, history, redoHistory, saveStepCounter, now, obs, track>>

----------------------------------------------------------------------------
(* Bounds of the model *)

\* appPreferences.maxHistory, fixed during a run
maxHistory == 2
\* the largest number of CommandHistory.execute calls in a run of the history specification
MaxExecHist == 3
\* the largest number of CommandHistory.execute calls in a run of the catalog specification
MaxExec == 2
\* the clock stops advancing after this many ticks
MaxTicks == 1
\* execute calls in a run of the update specification
MaxExecUpdate == 3
\* execute calls in a run of the keyframe specification
MaxExecKeyframes == 4
\* execute calls in a run of the removal specification
MaxExecRemove == 3
\* execute() calls in a run of the not-found specification
MaxExecNotFound == 3
\* execute() calls in a run of the merged-moves specification
MaxExecMoves == 5
\* execute() calls in a run of the end-point removal specification
MaxExecEnds == 3
\* execute() calls in a run of the merge-window specification
MaxExecWindow == 3
\* the clock of the merge-window specification stops after this many half windows
MaxWaits == 3

(* Program constants *)

\* execute(title, command, mergeTimeout = 500)
DefaultMergeTimeout == 500
\* one step of the clock, in milliseconds: the default merge window
TickMs == DefaultMergeTimeout
\* addCurve's handle offset on an empty path
HandleOffset == 24

None == [title |-> "<none>"]

----------------------------------------------------------------------------
(* JavaScript arrays *)

\* Array.prototype.indexOf: the 0-based index of the first x, or -1
IndexOf(s, x) ==
    IF \E i \in 1..Len(s) : s[i] = x
    THEN (CHOOSE i \in 1..Len(s) : s[i] = x /\ \A j \in 1..(i - 1) : s[j] # x) - 1
    ELSE -1

\* the start index Array.prototype.splice uses for a given start argument
SpliceStart(s, start) ==
    IF start < 0
    THEN (IF Len(s) + start < 0 THEN 0 ELSE Len(s) + start)
    ELSE (IF start > Len(s) THEN Len(s) ELSE start)

\* array.splice(start, 1): the array without the element at start (if any)
SpliceOut(s, start) ==
    LET k == SpliceStart(s, start)
    IN  IF k >= Len(s) THEN s
        ELSE SubSeq(s, 1, k) \o SubSeq(s, k + 2, Len(s))

\* array.splice(start, 0, x): the array with x inserted at start
SpliceIn(s, start, x) ==
    LET k == SpliceStart(s, start)
    IN  SubSeq(s, 1, k) \o <<x>> \o SubSeq(s, k + 1, Len(s))

\* array.pop(): the array without its last element
Pop(s) == IF Len(s) = 0 THEN s ELSE SubSeq(s, 1, Len(s) - 1)

Range(s) == {s[i] : i \in 1..Len(s)}

\* { ...a, ...b }: b's keys override a's
Spread(a, b) ==
    [k \in (DOMAIN a) \cup (DOMAIN b) |-> IF k \in DOMAIN b THEN b[k] ELSE a[k]]

\* whether reading object.f yields a value (not undefined)
HasField(c, f) == f \in DOMAIN c

----------------------------------------------------------------------------
(* The geometry heap *)

\* Vector arithmetic of Control / Vector
VAdd(a, b) == <<a[1] + b[1], a[2] + b[2]>>
VSub(a, b) == <<a[1] - b[1], a[2] - b[2]>>
\* v.divide(new Control(2, 2)); coordinates of the model are multiples of 8
VHalf(a) == <<a[1] \div 2, a[2] \div 2>>
\* p.mirror(c): the reflection of c through p
VMirror(p, c) == <<2 * p[1] - c[1], 2 * p[2] - c[2]>>

XY(g, c) == <<g.ctl[c].x, g.ctl[c].y>>
\* control.setXY(v)
SetXY(g, c, v) == [g EXCEPT !.ctl[c].x = v[1], !.ctl[c].y = v[2]]

\* new Control(x, y) / new EndPointControl(x, y, 0): the new object is Len(g.ctl)
NewControl(g, v, isEnd) ==
    [g EXCEPT !.ctl = Append(@, [x |-> v[1], y |-> v[2], isEnd |-> isEnd,
                                 visible |-> TRUE, lock |-> FALSE])]

\* new Segment(first, middle, last): the new object is Len(g.seg)
NewSegment(g, first, middle, last) ==
    [g EXCEPT !.seg = Append(@, [controls |-> <<first>> \o middle \o <<last>>,
                                 speedProfiles |-> <<>>])]

\* new Keyframe(xPos, yPos): the new object is Len(g.kfr)
NewKeyframe(g, xPos, yPos) ==
    [g EXCEPT !.kfr = Append(@, [xPos |-> xPos, yPos |-> yPos])]

\* segment.first / segment.last
SegFirst(g, s) == g.seg[s].controls[1]
SegLast(g, s) == g.seg[s].controls[Len(g.seg[s].controls)]
\* segment.last = c
SetSegLast(g, s, c) ==
    [g EXCEPT !.seg[s].controls = [@ EXCEPT ![Len(@)] = c]]

RECURSIVE Dedup(_)
Dedup(s) ==
    IF Len(s) = 0 THEN <<>>
    ELSE LET r == Dedup(Pop(s))
         IN  IF s[Len(s)] \in Range(r) THEN r ELSE Append(r, s[Len(s)])

RECURSIVE Flatten(_)
Flatten(ss) == IF Len(ss) = 0 THEN <<>> ELSE Head(ss) \o Flatten(Tail(ss))

\* path.controls: the controls of the path's segments in order, each once
PathControls(g, p) ==
    Dedup(Flatten([i \in 1..Len(g.pth[p].segments) |->
                      g.seg[g.pth[p].segments[i]].controls]))

\* Entities are tagged: <<"P", path>> or <<"C", control>>
PathEnt(p) == <<"P", p>>
CtlEnt(c) == <<"C", c>>
CtlEnts(cs) == [i \in 1..Len(cs) |-> CtlEnt(cs[i])]

\* target[key]
GetProp(g, t, k) == IF t[1] = "P" THEN g.pth[t[2]][k] ELSE g.ctl[t[2]][k]
\* target[key] = values[key] for every key of values
SetProps(g, t, values) ==
    IF t[1] = "P"
    THEN [g EXCEPT !.pth[t[2]] =
             [k \in DOMAIN @ |-> IF k \in DOMAIN values THEN values[k] ELSE @[k]]]
    ELSE [g EXCEPT !.ctl[t[2]] =
             [k \in DOMAIN @ |-> IF k \in DOMAIN values THEN values[k] ELSE @[k]]]

\* the graph one can reach from app.paths: what the editor shows and saves
View(g) ==
    LET ps == Range(g.paths)
        ss == UNION {Range(g.pth[p].segments) : p \in ps}
        cs == UNION {Range(g.seg[s].controls) : s \in ss}
        ks == UNION {Range(g.seg[s].speedProfiles) : s \in ss}
    IN  [paths |-> g.paths,
         pth |-> [p \in ps |-> g.pth[p]],
         seg |-> [s \in ss |-> g.seg[s]],
         ctl |-> [c \in cs |-> g.ctl[c]],
         kfr |-> [k \in ks |-> g.kfr[k]]]

----------------------------------------------------------------------------
(* UpdateInstancesProperties, UpdateProperties, UpdateInteractiveEntities *)

UIPClasses == {"UpdateInstancesProperties", "UpdateProperties", "UpdateInteractiveEntities"}

\* new UpdateProperties(target, newValues) / new UpdateInteractiveEntities(targets, newValues)
MkUpdate(cls, targets, newValues) ==
    [cls |-> cls, targets |-> targets, newValues |-> newValues, previousValue |-> <<>>]

\* updatePropertiesForTarget: overwrite the listed keys, return what they held
UpdatePropertiesForTarget(g, t, values) ==
    [g |-> SetProps(g, t, values),
     previousValues |-> [k \in DOMAIN values |-> GetProp(g, t, k)]]

RECURSIVE UIPExecuteLoop(_, _, _, _, _)
UIPExecuteLoop(g, targets, values, i, prev) ==
    IF i > Len(targets) THEN [g |-> g, prev |-> prev]
    ELSE LET r == UpdatePropertiesForTarget(g, targets[i], values)
         IN  UIPExecuteLoop(r.g, targets, values, i + 1, Append(prev, r.previousValues))

UIPExecute(g, c) ==
    LET r == UIPExecuteLoop(g, c.targets, c.newValues, 1, <<>>)
    IN  [g |-> r.g, c |-> [c EXCEPT !.previousValue = r.prev]]

RECURSIVE UIPUndoLoop(_, _, _, _)
UIPUndoLoop(g, targets, prev, i) ==
    IF i > Len(targets) THEN g
    ELSE UIPUndoLoop(UpdatePropertiesForTarget(g, targets[i], prev[i]).g, targets, prev, i + 1)

\* undo(): previousValue becomes undefined (here: empty) afterwards
UIPUndo(g, c) ==
    [g |-> UIPUndoLoop(g, c.targets, c.previousValue, 1),
     c |-> [c EXCEPT !.previousValue = <<>>]]

UIPRedo(g, c) == UIPExecute(g, c)

\* a snapshot in which the latest command's values win
UIPLatestPrevious(this, latest, i) ==
    Spread(this.previousValue[i],
           IF i <= Len(latest.previousValue) THEN latest.previousValue[i] ELSE <<>>)

\* the snapshot merge() keeps for target i: this command's, then the latest's
UIPMergedPrevious(this, latest, i) ==
    Spread(IF i <= Len(latest.previousValue) THEN latest.previousValue[i] ELSE <<>>,
           this.previousValue[i])

\* merge(latest): reads latest.previousValue[i] for every target of this command
\* (a TypeError when latest has no previousValue) and always returns true
UIPMerge(this, latest) ==
    IF Len(this.targets) = 0 THEN [result |-> "true", c |-> this]
    ELSE IF ~HasField(latest, "previousValue") THEN [result |-> "throw", c |-> this]
    ELSE [result |-> "true",
          c |-> [this EXCEPT
                   !.previousValue =
                       [i \in 1..Len(this.targets) |-> UIPMergedPrevious(this, latest, i)],
                   !.newValues = Spread(this.newValues, latest.newValues)]]

----------------------------------------------------------------------------
(* DragControls *)

MkDrag(main, from, to, followers) ==
    [cls |-> "DragControls", main |-> main, from |-> from, to |-> to,
     followers |-> followers]

\* for (cp of followers) cp.setXY(a.add(cp.subtract(b)))
RECURSIVE DragFollowers(_, _, _, _, _)
DragFollowers(g, followers, i, a, b) ==
    IF i > Len(followers) THEN g
    ELSE DragFollowers(SetXY(g, followers[i], VAdd(a, VSub(XY(g, followers[i]), b))),
                       followers, i + 1, a, b)

DragExecute(g, c) ==
    [g |-> SetXY(DragFollowers(g, c.followers, 1, c.to, c.from), c.main, c.to), c |-> c]

DragUndo(g, c) ==
    [g |-> SetXY(DragFollowers(g, c.followers, 1, c.from, c.to), c.main, c.from), c |-> c]

DragRedo(g, c) == DragExecute(g, c)

\* a merge that accepts the command and keeps the old destination
DragMergeKeepingTo(this, command) ==
    IF ~HasField(command, "followers") THEN [result |-> "throw", c |-> this]
    ELSE IF this.followers # command.followers \/ this.main # command.main
         THEN [result |-> "false", c |-> this]
    ELSE [result |-> "true", c |-> this]

\* a merge that compares the main control and the number of followers only
DragMergeCountingFollowers(this, command) ==
    IF ~HasField(command, "followers") THEN [result |-> "throw", c |-> this]
    ELSE IF Len(this.followers) # Len(command.followers) \/ this.main # command.main
         THEN [result |-> "false", c |-> this]
    ELSE [result |-> "true", c |-> [this EXCEPT !.to = command.to]]

\* merge(command): reads command.followers.length first (a TypeError when command
\* has no followers)
DragMerge(this, command) ==
    IF ~HasField(command, "followers") THEN [result |-> "throw", c |-> this]
    ELSE IF Len(this.followers) # Len(command.followers) THEN [result |-> "false", c |-> this]
    ELSE IF \E i \in 1..Len(this.followers) : this.followers[i] # command.followers[i]
         THEN [result |-> "false", c |-> this]
    ELSE IF this.main # command.main THEN [result |-> "false", c |-> this]
    ELSE [result |-> "true", c |-> [this EXCEPT !.to = command.to]]

----------------------------------------------------------------------------
(* Keyframes: AddKeyframe, MoveKeyframe, RemoveKeyframe *)

\* a KeyframePos that is undefined
NoPos == [segment |-> 0, xPos |-> 0, yPos |-> 0]

\* speedProfiles.sort((a, b) => a.xPos - b.xPos): a stable sort
RECURSIVE SortByXPos(_, _)
SortByXPos(g, s) ==
    IF Len(s) = 0 THEN <<>>
    ELSE LET r == SortByXPos(g, Pop(s))
             k == s[Len(s)]
             \* r is sorted: k goes after the elements that do not come after it
             n == Cardinality({i \in 1..Len(r) : g.kfr[r[i]].xPos <= g.kfr[k].xPos})
         IN  SubSeq(r, 1, n) \o <<k>> \o SubSeq(r, n + 1, Len(r))

\* segment.speedProfiles.push(kf); segment.speedProfiles.sort(...)
PushAndSort(g, seg, kf) ==
    [g EXCEPT !.seg[seg].speedProfiles = SortByXPos(g, Append(@, kf))]

MkMoveKeyframe(path, newPos, kf) ==
    [cls |-> "MoveKeyframe", path |-> path, newPos |-> newPos, kf |-> kf, oldPos |-> NoPos]

\* MoveKeyframe.removeKeyframe(pos)
MoveRemoveKeyframe(g, kf, pos) ==
    LET idx == IndexOf(g.seg[pos.segment].speedProfiles, kf)
    IN  IF idx = -1 THEN g
        ELSE [g EXCEPT !.seg[pos.segment].speedProfiles = SpliceOut(@, idx)]

\* MoveKeyframe.addKeyframe(pos)
MoveAddKeyframe(g, kf, pos) ==
    PushAndSort([g EXCEPT !.kfr[kf].xPos = pos.xPos, !.kfr[kf].yPos = pos.yPos],
                pos.segment, kf)

\* the first segment of the path whose speedProfiles hold kf, or 0
HolderOf(g, path, kf) ==
    LET segs == g.pth[path].segments
        hit == {i \in 1..Len(segs) : IndexOf(g.seg[segs[i]].speedProfiles, kf) # -1}
    IN  IF hit = {} THEN 0 ELSE segs[CHOOSE i \in hit : \A j \in hit : i <= j]

MoveExecute(g, c) ==
    LET seg == HolderOf(g, c.path, c.kf)
        g1 == IF seg = 0 THEN g
              ELSE [g EXCEPT !.seg[seg].speedProfiles =
                                 SpliceOut(@, IndexOf(@, c.kf))]
        c1 == IF seg = 0 THEN c
              ELSE [c EXCEPT !.oldPos = [segment |-> seg, xPos |-> g.kfr[c.kf].xPos,
                                         yPos |-> g.kfr[c.kf].yPos]]
    IN  [g |-> MoveAddKeyframe(g1, c.kf, c.newPos), c |-> c1]

MoveUndo(g, c) ==
    IF c.oldPos = NoPos THEN [g |-> g, c |-> c]
    ELSE [g |-> MoveAddKeyframe(MoveRemoveKeyframe(g, c.kf, c.newPos), c.kf, c.oldPos),
          c |-> c]

MoveRedo(g, c) ==
    IF c.oldPos = NoPos THEN [g |-> g, c |-> c]
    ELSE [g |-> MoveAddKeyframe(MoveRemoveKeyframe(g, c.kf, c.oldPos), c.kf, c.newPos),
          c |-> c]

\* merge(command): command.kf is undefined when command has no kf
MoveMerge(this, command) ==
    IF ~HasField(command, "kf") THEN [result |-> "false", c |-> this]
    ELSE IF command.kf # this.kf THEN [result |-> "false", c |-> this]
    ELSE [result |-> "true", c |-> [this EXCEPT !.newPos = command.newPos]]

MkAddKeyframe(path, pos) ==
    [cls |-> "AddKeyframe", path |-> path, pos |-> pos, kf |-> 0]

AddKeyframeExecute(g, c) ==
    LET g1 == NewKeyframe(g, c.pos.xPos, c.pos.yPos)
        kf == Len(g1.kfr)
    IN  [g |-> PushAndSort(g1, c.pos.segment, kf), c |-> [c EXCEPT !.kf = kf]]

AddKeyframeUndo(g, c) ==
    [g |-> [g EXCEPT !.seg[c.pos.segment].speedProfiles = SpliceOut(@, IndexOf(@, c.kf))],
     c |-> c]

AddKeyframeRedo(g, c) == [g |-> PushAndSort(g, c.pos.segment, c.kf), c |-> c]

MkRemoveKeyframe(path, kf) ==
    [cls |-> "RemoveKeyframe", path |-> path, kf |-> kf, segment |-> 0, oldIdx |-> -1]

RemoveKeyframeExecute(g, c) ==
    LET seg == HolderOf(g, c.path, c.kf)
    IN  IF seg = 0 THEN [g |-> g, c |-> c]
        ELSE LET idx == IndexOf(g.seg[seg].speedProfiles, c.kf)
             IN  [g |-> [g EXCEPT !.seg[seg].speedProfiles = SpliceOut(@, idx)],
                  c |-> [c EXCEPT !.segment = seg, !.oldIdx = idx]]

RemoveKeyframeUndo(g, c) ==
    IF c.segment = 0 \/ c.oldIdx = -1 THEN [g |-> g, c |-> c]
    ELSE [g |-> [g EXCEPT !.seg[c.segment].speedProfiles = SpliceIn(@, c.oldIdx, c.kf)],
          c |-> c]

RemoveKeyframeRedo(g, c) ==
    IF c.segment = 0 \/ c.oldIdx = -1 THEN [g |-> g, c |-> c]
    ELSE [g |-> [g EXCEPT !.seg[c.segment].speedProfiles = SpliceOut(@, c.oldIdx)],
          c |-> c]

----------------------------------------------------------------------------
(* AddSegment *)

MkAddSegment(path, end, variant) ==
    [cls |-> "AddSegment", path |-> path, end |-> end, variant |-> variant,
     forward |-> TRUE, segment |-> 0, _entities |-> <<>>]

\* this.path.segments.push(this.segment) with the segment just built, Len(g.seg)
PushNewSegment(g, c, ents) ==
    [g |-> [g EXCEPT !.pth[c.path].segments = Append(@, Len(g.seg))],
     c |-> [c EXCEPT !.segment = Len(g.seg), !._entities = @ \o CtlEnts(ents)]]

\* an addLine() that starts the segment at a copy of the path's last end point
AddLineFromCopy(g, c) ==
    LET segs == g.pth[c.path].segments
        g1 == NewControl(g, IF Len(segs) = 0 THEN <<0, 0>>
                            ELSE XY(g, SegLast(g, segs[Len(segs)])), TRUE)
    IN  PushNewSegment(NewSegment(g1, Len(g1.ctl), <<>>, c.end), c, <<c.end>>)

AddLine(g, c) ==
    LET segs == g.pth[c.path].segments
    IN  IF Len(segs) = 0
        THEN LET g1 == NewControl(g, <<0, 0>>, TRUE)
             IN  PushNewSegment(NewSegment(g1, Len(g1.ctl), <<>>, c.end), c, <<c.end>>)
        ELSE PushNewSegment(NewSegment(g, SegLast(g, segs[Len(segs)]), <<>>, c.end),
                            c, <<c.end>>)

AddCurve(g, c) ==
    LET segs == g.pth[c.path].segments
        p3 == c.end
    IN  IF Len(segs) = 0
        THEN LET g0 == NewControl(g, <<0, 0>>, TRUE)
                 p0 == Len(g0.ctl)
                 g1 == NewControl(g0, VAdd(XY(g0, p0), <<0, HandleOffset>>), FALSE)
                 p1 == Len(g1.ctl)
                 g2 == NewControl(g1, VSub(XY(g1, p3), <<0, HandleOffset>>), FALSE)
                 p2 == Len(g2.ctl)
             IN  PushNewSegment(NewSegment(g2, p0, <<p1, p2>>, p3), c, <<p0, p1, p2, p3>>)
        ELSE LET last == segs[Len(segs)]
                 p0 == SegLast(g, last)
                 cc == IF Len(g.seg[last].controls) < 4
                       THEN g.seg[last].controls[1] ELSE g.seg[last].controls[3]
                 g1 == NewControl(g, VMirror(XY(g, p0), XY(g, cc)), FALSE)
                 p1 == Len(g1.ctl)
                 g2 == NewControl(g1, VAdd(VHalf(XY(g1, p0)), VHalf(XY(g1, p3))), FALSE)
                 p2 == Len(g2.ctl)
             IN  PushNewSegment(NewSegment(g2, p0, <<p1, p2>>, p3), c, <<p1, p2, p3>>)

AddSegmentExecute(g, c) ==
    LET r == IF c.variant = "LINEAR" THEN AddLine(g, c) ELSE AddCurve(g, c)
    IN  [g |-> r.g, c |-> [r.c EXCEPT !.forward = TRUE]]

AddSegmentUndo(g, c) ==
    [g |-> [g EXCEPT !.pth[c.path].segments = Pop(@)], c |-> [c EXCEPT !.forward = FALSE]]

\* a redo() that builds the segment again
AddSegmentReexecuted(g, c) == AddSegmentExecute(g, c)

AddSegmentRedo(g, c) ==
    [g |-> [g EXCEPT !.pth[c.path].segments = Append(@, c.segment)],
     c |-> [c EXCEPT !.forward = TRUE]]

AddSegmentEntities(g, c) == IF c.forward THEN c._entities ELSE <<>>

----------------------------------------------------------------------------
(* ConvertSegment *)

MkConvertSegment(path, segment, variant) ==
    [cls |-> "ConvertSegment", path |-> path, segment |-> segment, variant |-> variant,
     previousControls |-> <<>>, newControls |-> <<>>]

\* this.segment.controls.splice(1, this.segment.controls.length - 2)
ConvertToLine(g, c) ==
    [g EXCEPT !.seg[c.segment].controls =
         IF Len(@) <= 2 THEN @ ELSE <<@[1], @[Len(@)]>>]

ConvertToCurve(g, c) ==
    LET segs == g.pth[c.path].segments
        index == IndexOf(segs, c.segment)
    IN  IF index = -1 THEN g
        ELSE LET p0 == SegFirst(g, c.segment)
                 p3 == SegLast(g, c.segment)
                 mid == VAdd(VHalf(XY(g, p0)), VHalf(XY(g, p3)))
                 v1 == IF index > 0
                       THEN LET prev == g.seg[segs[index]].controls
                            IN  VMirror(XY(g, p0), XY(g, prev[Len(prev) - 1]))
                       ELSE mid
                 v2 == IF index + 1 < Len(segs)
                       THEN VMirror(XY(g, p3), XY(g, g.seg[segs[index + 2]].controls[2]))
                       ELSE mid
                 g1 == NewControl(g, v1, FALSE)
                 p1 == Len(g1.ctl)
                 g2 == NewControl(g1, v2, FALSE)
                 p2 == Len(g2.ctl)
             IN  [g2 EXCEPT !.seg[c.segment].controls = <<p0, p1, p2, p3>>]

ConvertSegmentExecute(g, c) ==
    LET g1 == IF c.variant = "LINEAR" THEN ConvertToLine(g, c) ELSE ConvertToCurve(g, c)
    IN  [g |-> g1,
         c |-> [c EXCEPT !.previousControls = g.seg[c.segment].controls,
                         !.newControls = g1.seg[c.segment].controls]]

ConvertSegmentUndo(g, c) ==
    [g |-> [g EXCEPT !.seg[c.segment].controls = c.previousControls], c |-> c]

\* a redo() that runs execute() again
ConvertSegmentReexecuted(g, c) == ConvertSegmentExecute(g, c)

ConvertSegmentRedo(g, c) ==
    [g |-> [g EXCEPT !.seg[c.segment].controls = c.newControls], c |-> c]

\* this.segment.controls.slice(1, -1)
ConvertSegmentEntities(g, c) ==
    LET cs == g.seg[c.segment].controls
    IN  CtlEnts(SubSeq(cs, 2, Len(cs) - 1))

----------------------------------------------------------------------------
(* SplitSegment *)

MkSplitSegment(path, originalSegment, point) ==
    [cls |-> "SplitSegment", path |-> path, originalSegment |-> originalSegment,
     point |-> point, forward |-> TRUE,
     previousOriginalSegmentControls |-> <<>>, newOriginalSegmentControls |-> <<>>,
     newSegment |-> 0, _entities |-> <<>>]

\* the two branches of execute() on a segment found at (0-based) index
SplitLinear(g, c, index) ==
    LET last == SegLast(g, c.originalSegment)
        g1 == SetSegLast(g, c.originalSegment, c.point)
        g2 == NewSegment(g1, c.point, <<>>, last)
    IN  [g |-> [g2 EXCEPT !.pth[c.path].segments = SpliceIn(@, index + 1, Len(g2.seg))],
         c |-> [c EXCEPT !.newSegment = Len(g2.seg), !._entities = CtlEnts(<<c.point>>)]]

SplitCubic(g, c, index) ==
    LET cs == g.seg[c.originalSegment].controls
        g1 == NewControl(g, VAdd(VHalf(XY(g, cs[2])), VHalf(XY(g, c.point))), FALSE)
        a == Len(g1.ctl)
        g2 == NewControl(g1, VAdd(VHalf(XY(g1, cs[3])), VHalf(XY(g1, c.point))), FALSE)
        cc == Len(g2.ctl)
        g3 == NewSegment([g2 EXCEPT !.seg[c.originalSegment].controls =
                                        <<cs[1], cs[2], a, c.point>>],
                         c.point, <<cc, cs[3]>>, cs[4])
    IN  [g |-> [g3 EXCEPT !.pth[c.path].segments = SpliceIn(@, index + 1, Len(g3.seg))],
         c |-> [c EXCEPT !.newSegment = Len(g3.seg),
                         !._entities = CtlEnts(<<a, c.point, cc>>)]]

SplitSegmentExecute(g, c) ==
    LET c0 == [c EXCEPT !.previousOriginalSegmentControls = g.seg[c.originalSegment].controls]
        index == IndexOf(g.pth[c.path].segments, c.originalSegment)
        n == Len(g.seg[c.originalSegment].controls)
    IN  IF index = -1 THEN [g |-> g, c |-> c0]
        ELSE LET r == IF n = 2 THEN SplitLinear(g, c0, index)
                      ELSE IF n = 4 THEN SplitCubic(g, c0, index)
                      ELSE [g |-> g, c |-> c0]
             IN  [g |-> r.g,
                  c |-> [r.c EXCEPT
                           !.newOriginalSegmentControls = r.g.seg[c.originalSegment].controls,
                           !.forward = TRUE]]

\* a redo() that runs execute() again
SplitSegmentReexecuted(g, c) == SplitSegmentExecute(g, c)

\* undo(): indexOf(this.newSegment) is -1 when there is no new segment, and
\* splice(-1, 1) then removes the last segment of the path
SplitSegmentUndo(g, c) ==
    LET g1 == [g EXCEPT !.seg[c.originalSegment].controls = c.previousOriginalSegmentControls]
        index == IndexOf(g1.pth[c.path].segments, c.newSegment)
    IN  [g |-> [g1 EXCEPT !.pth[c.path].segments = SpliceOut(@, index)],
         c |-> [c EXCEPT !.forward = FALSE]]

SplitSegmentRedo(g, c) ==
    LET index == IndexOf(g.pth[c.path].segments, c.originalSegment)
        g1 == [g EXCEPT !.seg[c.originalSegment].controls = c.newOriginalSegmentControls]
    IN  [g |-> [g1 EXCEPT !.pth[c.path].segments = SpliceIn(@, index + 1, c.newSegment)],
         c |-> [c EXCEPT !.forward = TRUE]]

SplitSegmentEntities(g, c) == IF c.forward THEN c._entities ELSE <<>>

----------------------------------------------------------------------------
(* AddPath *)

MkAddPath(path) == [cls |-> "AddPath", path |-> path, forward |-> FALSE]

AddPathExecute(g, c) ==
    [g |-> [g EXCEPT !.paths = Append(@, c.path)], c |-> [c EXCEPT !.forward = TRUE]]

AddPathUndo(g, c) ==
    [g |-> [g EXCEPT !.paths = SpliceOut(@, IndexOf(@, c.path))],
     c |-> [c EXCEPT !.forward = FALSE]]

AddPathRedo(g, c) == AddPathExecute(g, c)

AddPathEntities(g, c) ==
    IF c.forward THEN <<PathEnt(c.path)>> \o CtlEnts(PathControls(g, c.path)) ELSE <<>>

----------------------------------------------------------------------------
(* RemovePathsAndEndControls *)

\* the constructor's inner loop over path.controls: uids is what is left of allEntities
RECURSIVE CollectEndControls(_, _, _, _, _)
CollectEndControls(g, path, cs, i, uids) ==
    IF i > Len(cs) THEN [uids |-> uids, found |-> <<>>]
    ELSE IF g.ctl[cs[i]].isEnd /\ CtlEnt(cs[i]) \in uids
         THEN LET r == CollectEndControls(g, path, cs, i + 1, uids \ {CtlEnt(cs[i])})
              IN  [uids |-> r.uids,
                   found |-> <<[path |-> path, control |-> cs[i]]>> \o r.found]
         ELSE CollectEndControls(g, path, cs, i + 1, uids)

\* the constructor's loop over all paths
RECURSIVE CollectRemovals(_, _, _)
CollectRemovals(g, i, uids) ==
    IF i > Len(g.paths) THEN [removalPaths |-> <<>>, removalEndControls |-> <<>>]
    ELSE LET path == g.paths[i]
         IN  IF PathEnt(path) \in uids
             THEN LET r == CollectRemovals(g, i + 1, uids \ {PathEnt(path)})
                  IN  [r EXCEPT !.removalPaths = <<path>> \o @]
             ELSE LET e == CollectEndControls(g, path, PathControls(g, path), 1, uids)
                      r == CollectRemovals(g, i + 1, e.uids)
                  IN  [r EXCEPT !.removalEndControls = e.found \o @]

\* new RemovePathsAndEndControls(app.paths, entities)
MkRemovePathsAndEndControls(g, entities) ==
    LET r == CollectRemovals(g, 1, entities)
    IN  [cls |-> "RemovePathsAndEndControls",
         removalPaths |-> r.removalPaths, removalEndControls |-> r.removalEndControls,
         affectedPaths |-> <<>>, affectedSegments |-> <<>>,
         forward |-> TRUE, _entities |-> <<>>]

\* a removal that records every path as found at index 0
RemovePathAtFront(g, c, path) ==
    LET idx == IndexOf(g.paths, path)
    IN  IF idx = -1 THEN [g |-> g, c |-> c]
        ELSE [g |-> [g EXCEPT !.paths = SpliceOut(@, idx)],
              c |-> [c EXCEPT
                       !.affectedPaths = Append(@, [index |-> 0, path |-> path]),
                       !._entities = @ \o <<PathEnt(path)>> \o CtlEnts(PathControls(g, path))]]

\* removePath(path)
RemovePath(g, c, path) ==
    LET idx == IndexOf(g.paths, path)
    IN  IF idx = -1 THEN [g |-> g, c |-> c]
        ELSE [g |-> [g EXCEPT !.paths = SpliceOut(@, idx)],
              c |-> [c EXCEPT
                       !.affectedPaths = Append(@, [index |-> idx, path |-> path]),
                       !._entities = @ \o <<PathEnt(path)>> \o CtlEnts(PathControls(g, path))]]

\* a removeControl that looks at the first control of each segment only
RemovesAtFirstOnly(g, path, control, index) ==
    SegFirst(g, g.pth[path].segments[index + 1]) = control

\* whether removeControl's loop stops at the segment at (0-based) index
RemovesAt(g, path, control, index) ==
    LET segs == g.pth[path].segments
        segment == segs[index + 1]
    IN  \/ SegFirst(g, segment) = control
        \/ (index + 1 = Len(segs) /\ SegLast(g, segment) = control)

\* a removal that never re-links the previous segment
NeverLinked(g, path, control, index) == FALSE

\* whether removeControl re-links the previous segment when it removes at index
LinkNeeded(g, path, control, index) ==
    SegFirst(g, g.pth[path].segments[index + 1]) = control /\ index # 0

\* the controls removeControl reports for the segment it removes at index
RemovedControls(g, path, control, index) ==
    LET segs == g.pth[path].segments
        cs == g.seg[segs[index + 1]].controls
    IN  IF Len(segs) = 1 THEN cs
        ELSE IF SegFirst(g, segs[index + 1]) = control THEN SubSeq(cs, 1, Len(cs) - 1)
        ELSE SubSeq(cs, 2, Len(cs))

\* removeControl(request)
RemoveControl(g, c, request) ==
    LET path == request.path
        control == request.control
        segs == g.pth[path].segments
        hits == {i \in 0..(Len(segs) - 1) : RemovesAt(g, path, control, i)}
    IN  IF hits = {} THEN [g |-> g, c |-> c]
        ELSE LET index == CHOOSE i \in hits : \A j \in hits : i <= j
                 segment == segs[index + 1]
                 linkNeeded == LinkNeeded(g, path, control, index)
                 g1 == IF linkNeeded
                       THEN SetSegLast(g, segs[index], SegLast(g, segment))
                       ELSE g
             IN  [g |-> [g1 EXCEPT !.pth[path].segments = SpliceOut(@, index)],
                  c |-> [c EXCEPT
                           !.affectedSegments =
                               Append(@, [index |-> index, segment |-> segment,
                                          path |-> path, linkNeeded |-> linkNeeded]),
                           !._entities =
                               @ \o CtlEnts(RemovedControls(g, path, control, index))]]

RECURSIVE RemovePathsLoop(_, _, _)
RemovePathsLoop(g, c, i) ==
    IF i > Len(c.removalPaths) THEN [g |-> g, c |-> c]
    ELSE LET r == RemovePath(g, c, c.removalPaths[i])
         IN  RemovePathsLoop(r.g, r.c, i + 1)

RECURSIVE RemoveControlsLoop(_, _, _)
RemoveControlsLoop(g, c, i) ==
    IF i > Len(c.removalEndControls) THEN [g |-> g, c |-> c]
    ELSE LET r == RemoveControl(g, c, c.removalEndControls[i])
         IN  RemoveControlsLoop(r.g, r.c, i + 1)

RemoveExecute(g, c) ==
    LET r == RemovePathsLoop(g, c, 1)
    IN  RemoveControlsLoop(r.g, r.c, 1)

\* undo()'s loop over affectedPaths, last to first
RECURSIVE RestorePaths(_, _, _)
RestorePaths(g, c, i) ==
    IF i < 1 THEN g
    ELSE RestorePaths([g EXCEPT !.paths = SpliceIn(@, c.affectedPaths[i].index,
                                                   c.affectedPaths[i].path)],
                      c, i - 1)

\* an undo() that puts the segments back without re-linking the segment before them
RECURSIVE RestoreSegmentsUnlinked(_, _, _)
RestoreSegmentsUnlinked(g, c, i) ==
    IF i < 1 THEN g
    ELSE LET a == c.affectedSegments[i]
         IN  RestoreSegmentsUnlinked(
                 [g EXCEPT !.pth[a.path].segments = SpliceIn(@, a.index, a.segment)], c, i - 1)

\* undo()'s loop over affectedSegments, last to first
RECURSIVE RestoreSegments(_, _, _)
RestoreSegments(g, c, i) ==
    IF i < 1 THEN g
    ELSE LET a == c.affectedSegments[i]
             g1 == [g EXCEPT !.pth[a.path].segments = SpliceIn(@, a.index, a.segment)]
             g2 == IF a.linkNeeded
                   THEN SetSegLast(g1, g1.pth[a.path].segments[a.index],
                                   SegFirst(g1, a.segment))
                   ELSE g1
         IN  RestoreSegments(g2, c, i - 1)

RemoveUndo(g, c) ==
    [g |-> RestoreSegments(RestorePaths(g, c, Len(c.affectedPaths)), c,
                           Len(c.affectedSegments)),
     c |-> [c EXCEPT !.forward = FALSE]]

\* redo()'s loop over affectedPaths, first to last
RECURSIVE RedoPaths(_, _, _)
RedoPaths(g, c, i) ==
    IF i > Len(c.affectedPaths) THEN g
    ELSE RedoPaths([g EXCEPT !.paths = SpliceOut(@, c.affectedPaths[i].index)], c, i + 1)

\* redo()'s loop over affectedSegments, first to last
RECURSIVE RedoSegments(_, _, _)
RedoSegments(g, c, i) ==
    IF i > Len(c.affectedSegments) THEN g
    ELSE LET a == c.affectedSegments[i]
             g1 == [g EXCEPT !.pth[a.path].segments = SpliceOut(@, a.index)]
             g2 == IF a.linkNeeded
                   THEN SetSegLast(g1, g1.pth[a.path].segments[a.index],
                                   SegLast(g1, a.segment))
                   ELSE g1
         IN  RedoSegments(g2, c, i + 1)

RemoveRedo(g, c) ==
    [g |-> RedoSegments(RedoPaths(g, c, 1), c, 1), c |-> [c EXCEPT !.forward = TRUE]]

RemoveEntities(g, c) == IF c.forward THEN <<>> ELSE c._entities

----------------------------------------------------------------------------
(* The command protocol: dispatch on the command's class *)

\* "merge" in object
isMergeable(c) == c.cls \in UIPClasses \cup {"DragControls", "MoveKeyframe"}

\* a test that finds no command reporting entities
ReportsNothing(c) == FALSE

\* "entities" in object
isInteractiveEntitiesCommand(c) ==
    c.cls \in {"UpdateInteractiveEntities", "AddSegment", "ConvertSegment", "SplitSegment",
               "DragControls", "AddPath", "RemovePathsAndEndControls"}

\* command.execute()
CmdExecute(g, c) ==
    CASE c.cls \in UIPClasses -> UIPExecute(g, c)
      [] c.cls = "DragControls" -> DragExecute(g, c)
      [] c.cls = "MoveKeyframe" -> MoveExecute(g, c)
      [] c.cls = "AddKeyframe" -> AddKeyframeExecute(g, c)
      [] c.cls = "RemoveKeyframe" -> RemoveKeyframeExecute(g, c)
      [] c.cls = "AddSegment" -> AddSegmentExecute(g, c)
      [] c.cls = "ConvertSegment" -> ConvertSegmentExecute(g, c)
      [] c.cls = "SplitSegment" -> SplitSegmentExecute(g, c)
      [] c.cls = "AddPath" -> AddPathExecute(g, c)
      [] c.cls = "RemovePathsAndEndControls" -> RemoveExecute(g, c)

\* command.undo()
CmdUndo(g, c) ==
    CASE c.cls \in UIPClasses -> UIPUndo(g, c)
      [] c.cls = "DragControls" -> DragUndo(g, c)
      [] c.cls = "MoveKeyframe" -> MoveUndo(g, c)
      [] c.cls = "AddKeyframe" -> AddKeyframeUndo(g, c)
      [] c.cls = "RemoveKeyframe" -> RemoveKeyframeUndo(g, c)
      [] c.cls = "AddSegment" -> AddSegmentUndo(g, c)
      [] c.cls = "ConvertSegment" -> ConvertSegmentUndo(g, c)
      [] c.cls = "SplitSegment" -> SplitSegmentUndo(g, c)
      [] c.cls = "AddPath" -> AddPathUndo(g, c)
      [] c.cls = "RemovePathsAndEndControls" -> RemoveUndo(g, c)

\* command.redo()
CmdRedo(g, c) ==
    CASE c.cls \in UIPClasses -> UIPRedo(g, c)
      [] c.cls = "DragControls" -> DragRedo(g, c)
      [] c.cls = "MoveKeyframe" -> MoveRedo(g, c)
      [] c.cls = "AddKeyframe" -> AddKeyframeRedo(g, c)
      [] c.cls = "RemoveKeyframe" -> RemoveKeyframeRedo(g, c)
      [] c.cls = "AddSegment" -> AddSegmentRedo(g, c)
      [] c.cls = "ConvertSegment" -> ConvertSegmentRedo(g, c)
      [] c.cls = "SplitSegment" -> SplitSegmentRedo(g, c)
      [] c.cls = "AddPath" -> AddPathRedo(g, c)
      [] c.cls = "RemovePathsAndEndControls" -> RemoveRedo(g, c)

\* this.merge(command), for a mergeable this
CmdMerge(this, command) ==
    CASE this.cls \in UIPClasses -> UIPMerge(this, command)
      [] this.cls = "DragControls" -> DragMerge(this, command)
      [] this.cls = "MoveKeyframe" -> MoveMerge(this, command)

\* command.entities, for a command that reports entities
CmdEntities(g, c) ==
    CASE c.cls = "UpdateInteractiveEntities" -> c.targets
      [] c.cls = "DragControls" -> CtlEnts(<<c.main>> \o c.followers)
      [] c.cls = "AddSegment" -> AddSegmentEntities(g, c)
      [] c.cls = "ConvertSegment" -> ConvertSegmentEntities(g, c)
      [] c.cls = "SplitSegment" -> SplitSegmentEntities(g, c)
      [] c.cls = "AddPath" -> AddPathEntities(g, c)
      [] c.cls = "RemovePathsAndEndControls" -> RemoveEntities(g, c)

----------------------------------------------------------------------------
(* Bookkeeping of a run.  None of it is read by the program's operations.  *)
(* Every command carries aux: its serial number, the graph before it was   *)
(* executed, the graph before it was last undone, and how many commands    *)
(* were merged into it.                                                    *)

NoView == [paths |-> <<"none">>]

WithAux(c, sn, pre) ==
    [k \in (DOMAIN c) \cup {"aux"} |->
        IF k = "aux" THEN [sn |-> sn, pre |-> pre, post |-> NoView, merges |-> 0]
        ELSE c[k]]

Serials(h) == [i \in 1..Len(h) |-> h[i].aux.sn]

\* the events since the last save(): "c" a commit, "u" an undo, "r" a redo;
\* anything that is not c..cu..u or u..ur..r is remembered only as <<"x">>
Poison == <<"x">>

CountOf(log, e) == Cardinality({i \in 1..Len(log) : log[i] = e})

IsRun(log, a, b) ==
    /\ \A i \in 1..Len(log) : log[i] \in {a, b}
    /\ \A i, j \in 1..Len(log) : (log[i] = a /\ log[j] = b) => i < j
    /\ CountOf(log, b) <= CountOf(log, a)

Logged(log, evs) ==
    LET l == log \o evs
    IN  IF IsRun(l, "c", "u") \/ IsRun(l, "u", "r") THEN l ELSE Poison

\* the entry removed from sequence a to get sequence b, as a list of serials
Gone(a, b) ==
    LET gone == Range(Serials(a)) \ Range(Serials(b))
    IN  IF gone = {} THEN <<>> ELSE <<CHOOSE x \in gone : TRUE>>

----------------------------------------------------------------------------
(* CommandHistory *)

\* typeof command
TypeOf(c) == "object"

\* a merge window that includes its end point
WindowWithEnd(exe, last) == exe.time - last.time <= exe.mergeTimeout

\* exe.time - this.lastExecution.time < exe.mergeTimeout
MergeWindowOpen(exe, last) == exe.time - last.time < exe.mergeTimeout

\* the condition of execute() up to the call of merge
MergeAttempted(exe, last) ==
    /\ last # None
    /\ exe.title = last.title
    /\ isMergeable(exe.command)
    /\ isMergeable(last.command)
    /\ TypeOf(exe.command) = TypeOf(last.command)
    /\ MergeWindowOpen(exe, last)

\* an undo stack without a capacity
Untrimmed(h) == h

\* an undo stack that gives up its newest entry when over capacity
TrimmedNewest(h) == IF Len(h) > maxHistory THEN Pop(h) ELSE h

\* if (this.history.length > appPreferences.maxHistory) this.history.shift()
TrimmedHistory(h) == IF Len(h) > maxHistory THEN Tail(h) ELSE h

\* an undo() that leaves the save counter alone
CounterKept(n) == n

\* this.saveStepCounter-- in undo()
CounterAfterUndo(n) == n - 1

\* an execute() that keeps the redo stack
RedoKept == redoHistory

\* this.redoHistory = [] at the end of execute()
RedoAfterExecute == <<>>

\* a merge that puts the new execution in the place of the pending entry
ReplacedEntry(last, exe, merged) == [exe EXCEPT !.command = merged]

\* a merge that keeps the new command and forgets the pending one
LatestEntry(last, exe, merged) == exe

\* this.lastExecution.time = exe.time, after merge() has changed the pending command
MergedEntry(last, exe, merged) == [last EXCEPT !.command = merged, !.time = exe.time]

\* the fields of CommandHistory
HState ==
    [lastExecution |-> lastExecution, history |-> history,
     redoHistory |-> redoHistory, saveStepCounter |-> saveStepCounter]

\* a commit() that pushes the pending command and keeps it pending
CommittedKeepingPending(H) ==
    IF H.lastExecution = None THEN H
    ELSE [H EXCEPT !.history = TrimmedHistory(Append(@, H.lastExecution.command)),
                   !.saveStepCounter = @ + 1]

\* commit()
Committed(H) ==
    IF H.lastExecution = None THEN H
    ELSE [H EXCEPT !.history = TrimmedHistory(Append(@, H.lastExecution.command)),
                   !.saveStepCounter = @ + 1,
                   !.lastExecution = None]

SetHistory(H) ==
    /\ lastExecution' = H.lastExecution
    /\ history' = H.history
    /\ redoHistory' = H.redoHistory
    /\ saveStepCounter' = H.saveStepCounter

\* what a call reports when nothing else is said about it
Quiet(op) ==
    [op |-> op, acted |-> FALSE, merge |-> "none", prev |-> lastExecution,
     command |-> None, ret |-> FALSE, expect |-> NoView, wasMerged |-> FALSE,
     setSelected |-> <<>>, mergeTimeout |-> -1, elapsed |-> -1,
     redoBefore |-> Len(redoHistory)]

\* what a commit() leaves in the bookkeeping: H is the state before, H1 after
TrackCommit(t, H, H1) ==
    IF H.lastExecution = None THEN t
    ELSE [t EXCEPT
            !.sinceSave = Logged(@, <<"c">>),
            !.applied = Append(@, H.lastExecution.command.aux.sn),
            !.dropped = @ \o Gone(Append(H.history, H.lastExecution.command), H1.history)]

\* execute(title, command, mergeTimeout), for a command built on heap g0
Execute(title, c0, g0, mergeTimeout, maxExec) ==
    /\ track.nExec < maxExec
    /\ LET r == CmdExecute(g0, WithAux(c0, track.nExec + 1, View(geo)))
           exe == [title |-> title, command |-> r.c, time |-> now,
                   mergeTimeout |-> mergeTimeout]
           attempt == MergeAttempted(exe, lastExecution)
           m == IF attempt THEN CmdMerge(lastExecution.command, exe.command)
                ELSE [result |-> "none", c |-> None]
           H == HState
           H1 == Committed(H)
           o == [Quiet("execute") EXCEPT
                    !.merge = m.result,
                    !.command = r.c,
                    !.mergeTimeout = mergeTimeout,
                    !.elapsed = IF lastExecution = None THEN -1
                                ELSE exe.time - lastExecution.time]
       IN  /\ geo' = r.g
           /\ obs' = o
           /\ CASE m.result = "throw" ->
                     /\ UNCHANGED <<lastExecution, history, redoHistory, saveStepCounter>>
                     /\ track' = [track EXCEPT !.nExec = @ + 1]
                [] m.result = "true" ->
                     /\ lastExecution' =
                            MergedEntry(lastExecution, exe,
                                        [m.c EXCEPT !.aux.merges = @ + 1])
                     /\ redoHistory' = RedoAfterExecute
                     /\ UNCHANGED <<history, saveStepCounter>>
                     /\ track' = [track EXCEPT !.nExec = @ + 1, !.fresh = TRUE]
                [] OTHER ->
                     /\ lastExecution' = exe
                     /\ history' = H1.history
                     /\ saveStepCounter' = H1.saveStepCounter
                     /\ redoHistory' = RedoAfterExecute
                     /\ track' = [TrackCommit(track, H, H1) EXCEPT
                                     !.nExec = @ + 1, !.fresh = TRUE]
    /\ UNCHANGED now

\* commit()
Commit ==
    /\ lastExecution # None
    /\ SetHistory(Committed(HState))
    /\ track' = TrackCommit(track, HState, Committed(HState))
    /\ obs' = [Quiet("commit") EXCEPT !.acted = TRUE]
    /\ UNCHANGED <<geo, now>>

\* undo()
Undo ==
    LET H == HState
        H1 == Committed(H)
        t1 == [TrackCommit(track, H, H1) EXCEPT !.fresh = FALSE]
    IN  /\ IF Len(H1.history) > 0
           THEN LET command == H1.history[Len(H1.history)]
                    r == CmdUndo(geo, command)
                IN  /\ geo' = r.g
                    /\ SetHistory([H1 EXCEPT
                           !.history = Pop(@),
                           !.redoHistory = Append(@, [r.c EXCEPT !.aux.post = View(geo)]),
                           !.saveStepCounter = CounterAfterUndo(@)])
                    /\ track' = [t1 EXCEPT
                                    !.sinceSave = Logged(@, <<"u">>),
                                    !.applied = SelectSeq(@, LAMBDA x : x # command.aux.sn)]
                    /\ obs' = [Quiet("undo") EXCEPT
                                  !.acted = TRUE,
                                  !.command = r.c,
                                  !.expect = command.aux.pre,
                                  !.wasMerged = command.aux.merges > 0,
                                  !.setSelected =
                                      IF isInteractiveEntitiesCommand(r.c)
                                      THEN <<CmdEntities(r.g, r.c)>> ELSE <<>>]
           ELSE /\ SetHistory(H1)
                /\ track' = t1
                /\ obs' = Quiet("undo")
                /\ UNCHANGED geo
        /\ UNCHANGED now

\* redo()
Redo ==
    /\ IF Len(redoHistory) > 0
       THEN LET command == redoHistory[Len(redoHistory)]
                r == CmdRedo(geo, command)
            IN  /\ geo' = r.g
                /\ redoHistory' = Pop(redoHistory)
                /\ history' = Append(history, r.c)
                /\ saveStepCounter' = saveStepCounter + 1
                /\ track' = [track EXCEPT
                                !.fresh = FALSE,
                                !.sinceSave = Logged(@, <<"r">>),
                                !.applied = Append(@, command.aux.sn)]
                /\ obs' = [Quiet("redo") EXCEPT
                              !.acted = TRUE,
                              !.command = r.c,
                              !.expect = command.aux.post,
                              !.setSelected =
                                  IF isInteractiveEntitiesCommand(r.c)
                                  THEN <<CmdEntities(r.g, r.c)>> ELSE <<>>]
       ELSE /\ UNCHANGED <<geo, redoHistory, history, saveStepCounter>>
            /\ track' = [track EXCEPT !.fresh = FALSE]
            /\ obs' = Quiet("redo")
    /\ UNCHANGED <<lastExecution, now>>

\* clearHistory()
ClearHistory ==
    /\ lastExecution' = None
    /\ history' = <<>>
    /\ redoHistory' = <<>>
    /\ saveStepCounter' = 0
    /\ track' = [track EXCEPT !.fresh = FALSE, !.saved = FALSE, !.sinceSave = Poison,
                              !.applied = <<>>, !.dropped = <<>>,
                              !.base = View(geo)]
    /\ obs' = Quiet("clearHistory")
    /\ UNCHANGED <<geo, now>>

\* save()
Save ==
    /\ SetHistory([Committed(HState) EXCEPT !.saveStepCounter = 0])
    /\ track' = [TrackCommit(track, HState, Committed(HState)) EXCEPT
                    !.fresh = FALSE, !.saved = TRUE, !.sinceSave = <<>>]
    /\ obs' = Quiet("save")
    /\ UNCHANGED <<geo, now>>

\* isModified()
IsModified ==
    /\ SetHistory(Committed(HState))
    /\ track' = TrackCommit(track, HState, Committed(HState))
    /\ obs' = [Quiet("isModified") EXCEPT !.ret = (Committed(HState).saveStepCounter # 0)]
    /\ UNCHANGED <<geo, now>>

\* time passes between two calls; the program reads the clock only to compare it
\* with the pending entry's time
Tick ==
    /\ lastExecution # None
    /\ now < MaxTicks * TickMs
    /\ now' = now + TickMs
    /\ UNCHANGED <<geo, lastExecution, history, redoHistory, saveStepCounter, obs, track>>

----------------------------------------------------------------------------
(* The editor at start: one path of a linear and a cubic segment sharing an *)
(* end point, two keyframes at the same xPos, and a second path not yet     *)
(* added to app.paths.                                                     *)

Ctl(x, y, isEnd) == [x |-> x, y |-> y, isEnd |-> isEnd, visible |-> TRUE, lock |-> FALSE]

InitGeo ==
    [paths |-> <<1>>,
     pth |-> <<[segments |-> <<1, 2>>, visible |-> TRUE, lock |-> FALSE],
               [segments |-> <<3>>, visible |-> TRUE, lock |-> FALSE]>>,
     seg |-> <<[controls |-> <<1, 2>>, speedProfiles |-> <<1, 2>>],
               [controls |-> <<2, 3, 4, 5>>, speedProfiles |-> <<>>],
               [controls |-> <<6, 7>>, speedProfiles |-> <<>>]>>,
     ctl |-> <<Ctl(0, 0, TRUE), Ctl(16, 0, TRUE), Ctl(16, 8, FALSE), Ctl(32, 8, FALSE),
               Ctl(32, 0, TRUE), Ctl(0, 16, TRUE), Ctl(16, 16, TRUE)>>,
     kfr |-> <<[xPos |-> 50, yPos |-> 8], [xPos |-> 50, yPos |-> 16]>>]

Init ==
    /\ geo = InitGeo
    /\ lastExecution = None
    /\ history = <<>>
    /\ redoHistory = <<>>
    /\ saveStepCounter = 0
    /\ now = 0
    /\ obs = [op |-> "init", acted |-> FALSE, merge |-> "none", prev |-> None,
              command |-> None, ret |-> FALSE, expect |-> NoView, wasMerged |-> FALSE,
              setSelected |-> <<>>, mergeTimeout |-> -1, elapsed |-> -1,
              redoBefore |-> 0]
    /\ track = [nExec |-> 0, fresh |-> FALSE, saved |-> FALSE, sinceSave |-> Poison,
                applied |-> <<>>, dropped |-> <<>>, base |-> View(InitGeo)]

----------------------------------------------------------------------------
(* The commands the user interface builds on the live graph *)

LivePaths(g) == Range(g.paths)
LiveSegs(g) == UNION {Range(g.pth[p].segments) : p \in LivePaths(g)}
LiveCtls(g) == UNION {Range(g.seg[s].controls) : s \in LiveSegs(g)}
LiveEnds(g) == {c \in LiveCtls(g) : g.ctl[c].isEnd}
LiveKfs(g) == UNION {Range(g.seg[s].speedProfiles) : s \in LiveSegs(g)}
PathOfSeg(g, s) == CHOOSE p \in LivePaths(g) : s \in Range(g.pth[p].segments)
PathOfKf(g, k) ==
    CHOOSE p \in LivePaths(g) :
        \E s \in Range(g.pth[p].segments) : k \in Range(g.seg[s].speedProfiles)

Built(g, c) == [g |-> g, c |-> c]

\* the positions a new or dragged control is put at
DropPoint == <<24, 16>>
DragBy == <<8, 0>>
KeyframeXs == {50, 80}
KeyframeMoveXs == {80}


\* property updates of the path tree: toggle visible or lock of an entity
UpdateCmds(g, targetLists) ==
    {Built(g, MkUpdate(IF Len(t) = 1 /\ t[1][1] = "P" THEN "UpdateProperties"
                       ELSE "UpdateInteractiveEntities", t, v)) :
        t \in targetLists,
        v \in {[visible |-> FALSE], [visible |-> TRUE], [lock |-> TRUE]}}

\* a drag of main, which is at `from`, with a list of followers
DragCmds(g, mains, followerLists) ==
    {Built(g, MkDrag(m, XY(g, m), VAdd(XY(g, m), DragBy), f)) :
        m \in mains, f \in followerLists}

MoveKeyframeCmds(g, kfs, segs) ==
    {Built(g, MkMoveKeyframe(PathOfKf(g, k),
                             [segment |-> s, xPos |-> x, yPos |-> g.kfr[k].yPos], k)) :
        k \in kfs, s \in segs, x \in KeyframeMoveXs}

AddKeyframeCmds(g, segs) ==
    {Built(g, MkAddKeyframe(PathOfSeg(g, s), [segment |-> s, xPos |-> x, yPos |-> 4])) :
        s \in segs, x \in KeyframeXs}

RemoveKeyframeCmds(g) ==
    {Built(g, MkRemoveKeyframe(PathOfKf(g, k), k)) : k \in LiveKfs(g)}

\* the caller builds the new end point, then the command
AddSegmentCmds(g) ==
    LET g0 == NewControl(g, DropPoint, TRUE)
    IN  {Built(g0, MkAddSegment(p, Len(g0.ctl), v)) :
            p \in LivePaths(g), v \in {"LINEAR", "CUBIC"}}

ConvertSegmentCmds(g) ==
    {Built(g, MkConvertSegment(PathOfSeg(g, s), s, v)) :
        s \in LiveSegs(g), v \in {"LINEAR", "CUBIC"}}

SplitSegmentCmds(g) ==
    LET g0 == NewControl(g, DropPoint, TRUE)
    IN  {Built(g0, MkSplitSegment(PathOfSeg(g, s), s, Len(g0.ctl))) : s \in LiveSegs(g)}

AddPathCmds(g) ==
    {Built(g, MkAddPath(p)) : p \in (1..Len(g.pth)) \ LivePaths(g)}

\* the selections the delete key is pressed on
RemovalSelections(g) ==
    {{PathEnt(p)} : p \in LivePaths(g)}
    \cup {{CtlEnt(c)} : c \in LiveEnds(g)}
    \cup {{CtlEnt(c), CtlEnt(d)} : c, d \in LiveEnds(g)}
    \cup {{PathEnt(p), CtlEnt(c)} : p \in LivePaths(g), c \in LiveEnds(g)}

RemoveCmds(g) ==
    {Built(g, MkRemovePathsAndEndControls(g, sel)) : sel \in RemovalSelections(g)}

Lowest(S) == CHOOSE x \in S : \A y \in S : x <= y

\* the commands of the catalog specification
CatalogCmds(g) ==
    LET ends == LiveEnds(g)
        e1 == Lowest(ends)
        e2 == Lowest(ends \ {e1})
        lists == IF Cardinality(ends) < 2 THEN {}
                 ELSE {<<CtlEnt(e1)>>, <<CtlEnt(e1), CtlEnt(e2)>>}
        mains == IF Cardinality(ends) < 2 THEN {} ELSE {e1, e2}
        followers == IF Cardinality(ends) < 2 THEN {} ELSE {<<>>, <<e2>>}
    IN  UpdateCmds(g, lists \cup {<<PathEnt(p)>> : p \in LivePaths(g)})
        \cup DragCmds(g, mains, followers)
        \cup MoveKeyframeCmds(g, LiveKfs(g), LiveSegs(g))
        \cup AddKeyframeCmds(g, LiveSegs(g))
        \cup RemoveKeyframeCmds(g)
        \cup AddSegmentCmds(g)
        \cup ConvertSegmentCmds(g)
        \cup SplitSegmentCmds(g)
        \cup AddPathCmds(g)
        \cup RemoveCmds(g)

\* the calls of the history specification, <<title, command, mergeTimeout>>: one
\* command of each mergeable class under a shared title, a property update with
\* merging disabled as in PathTreeItem, and a drag under a title of its own
HistoryCalls(g) ==
    LET update == MkUpdate("UpdateInteractiveEntities", <<CtlEnt(2)>>, [visible |-> FALSE])
        drag == MkDrag(1, XY(g, 1), VAdd(XY(g, 1), DragBy), <<>>)
        move == MkMoveKeyframe(1, [segment |-> 1, xPos |-> 80, yPos |-> g.kfr[1].yPos], 1)
    IN  {<<"T1", update, DefaultMergeTimeout>>, <<"T1", update, 0>>,
         <<"T1", drag, DefaultMergeTimeout>>, <<"T2", drag, DefaultMergeTimeout>>,
         <<"T1", move, DefaultMergeTimeout>>}

ExecuteCatalog ==
    \E b \in CatalogCmds(geo) : Execute("T1", b.c, b.g, DefaultMergeTimeout, MaxExec)

ExecuteHistory ==
    \E call \in HistoryCalls(geo) :
        Execute(call[1], call[2], geo, call[3], MaxExecHist)

\* The catalog specification: every command of the catalog on the live graph,
\* with the calls that decide what its undo and redo act on.
Next ==
    \/ ExecuteCatalog
    \/ Commit
    \/ Undo
    \/ Redo

Spec == Init /\ [][Next]_vars

\* The history specification: every call of CommandHistory and the clock, with
\* one command of each mergeable class.
NextHistory ==
    \/ ExecuteHistory
    \/ Commit
    \/ Undo
    \/ Redo
    \/ ClearHistory
    \/ Save
    \/ IsModified
    \/ Tick

SpecHistory == Init /\ [][NextHistory]_vars

\* the calls of the update specification, <<title, command>>: property updates of
\* two end points together, and of the first one alone under a title of its own
UpdateCalls ==
    LET both == <<CtlEnt(1), CtlEnt(2)>>
        one == <<CtlEnt(1)>>
        values == {[visible |-> FALSE], [visible |-> TRUE], [lock |-> TRUE],
                   [visible |-> FALSE, lock |-> TRUE]}
    IN  {<<"T1", MkUpdate("UpdateInteractiveEntities", both, v)>> : v \in values}
        \cup {<<"T2", MkUpdate("UpdateInteractiveEntities", one, v)>> : v \in values}

ExecuteUpdate ==
    \E call \in UpdateCalls :
        Execute(call[1], call[2], geo, DefaultMergeTimeout, MaxExecUpdate)

\* The update specification: runs of property updates on one target list.
NextUpdate ==
    \/ ExecuteUpdate
    \/ Commit
    \/ Undo
    \/ Redo

SpecUpdate == Init /\ [][NextUpdate]_vars

\* the commands of the keyframe specification: a keyframe added to the first segment
\* at the xPos its keyframes have, a keyframe moved within or between the two
\* segments of the path, a keyframe removed
KeyframeCalls(g) ==
    {Built(g, MkAddKeyframe(PathOfSeg(g, 1), [segment |-> 1, xPos |-> 50, yPos |-> 4]))}
    \cup {Built(g, MkMoveKeyframe(PathOfKf(g, k),
                                 [segment |-> s, xPos |-> 20, yPos |-> g.kfr[k].yPos], k)) :
             k \in LiveKfs(g), s \in {1, 2}}
    \cup RemoveKeyframeCmds(g)

ExecuteKeyframes ==
    \E b \in KeyframeCalls(geo) :
        Execute("T1", b.c, b.g, DefaultMergeTimeout, MaxExecKeyframes)

\* The keyframe specification: runs of AddKeyframe, MoveKeyframe and RemoveKeyframe.
NextKeyframes ==
    \/ ExecuteKeyframes
    \/ Commit
    \/ Undo
    \/ Redo

SpecKeyframes == Init /\ [][NextKeyframes]_vars

\* the id lists a removal is given: paths, end points of both paths (1, 2 and 6), an
\* interior control (3) and an id that no object has
RemovalNamings ==
    LET unknown == <<"C", 0>>
    IN  {{PathEnt(1)}, {PathEnt(2)}, {PathEnt(1), PathEnt(2)},
         {PathEnt(1), CtlEnt(1)}, {PathEnt(1), CtlEnt(6)},
         {PathEnt(2), CtlEnt(1), CtlEnt(3), CtlEnt(6), unknown},
         {CtlEnt(1)}, {CtlEnt(2), CtlEnt(3)}, {CtlEnt(3)}, {unknown},
         {CtlEnt(1), CtlEnt(6)}, {CtlEnt(3), unknown, CtlEnt(6)}}

\* the commands of the removal specification; `named` remembers the ids given to the
\* constructor, which the command itself does not keep
RemovalCalls(g) ==
    AddPathCmds(g)
    \cup {Built(g, Spread(MkRemovePathsAndEndControls(g, sel), [named |-> sel])) :
             sel \in RemovalNamings}

ExecuteRemoval ==
    \E b \in RemovalCalls(geo) :
        Execute("T1", b.c, b.g, DefaultMergeTimeout, MaxExecRemove)

\* The removal specification: paths added and mixed selections removed.
NextRemove ==
    \/ ExecuteRemoval
    \/ Commit
    \/ Undo
    \/ Redo

SpecRemove == Init /\ [][NextRemove]_vars

\* the commands of the not-found specification: commands given the second path, which
\* holds segment 3 alone, together with a segment or the first keyframe of the first
\* path. A command that walks path.segments is built while every entry is a segment.
NotFoundCalls(g) ==
    LET g0 == NewControl(g, DropPoint, TRUE)
    IN  {Built(g0, MkSplitSegment(2, s, Len(g0.ctl))) : s \in {1, 2}}
        \cup {Built(g, MkConvertSegment(2, s, v)) : s \in {1, 2}, v \in {"LINEAR", "CUBIC"}}
        \cup (IF 0 \in Range(g.pth[2].segments) THEN {}
              ELSE {Built(g, MkMoveKeyframe(2, [segment |-> s, xPos |-> 80,
                                                yPos |-> g.kfr[1].yPos], 1)) : s \in {1, 3}}
                   \cup {Built(g, MkRemoveKeyframe(2, 1))})

ExecuteNotFound ==
    \E b \in NotFoundCalls(geo) :
        Execute("T1", b.c, b.g, DefaultMergeTimeout, MaxExecNotFound)

\* The not-found specification: commands whose segment or keyframe is not in the
\* path they are given.
NextNotFound ==
    \/ ExecuteNotFound
    \/ Commit
    \/ Undo
    \/ Redo

SpecNotFound == Init /\ [][NextNotFound]_vars

\* the commands of the merged-moves specification: a keyframe added to the first
\* segment, the first keyframe moved or removed
MovesCalls(g) ==
    {Built(g, MkAddKeyframe(PathOfSeg(g, 1), [segment |-> 1, xPos |-> 50, yPos |-> 4]))}
    \cup {Built(g, MkMoveKeyframe(PathOfKf(g, k),
                                 [segment |-> pos[1], xPos |-> pos[2],
                                  yPos |-> g.kfr[k].yPos], k)) :
             k \in LiveKfs(g) \cap {1}, pos \in {<<1, 20>>, <<2, 20>>, <<2, 80>>}}
    \cup {Built(g, MkRemoveKeyframe(PathOfKf(g, k), k)) : k \in LiveKfs(g) \cap {1}}

ExecuteMoves ==
    \E b \in MovesCalls(geo) :
        Execute("T1", b.c, b.g, DefaultMergeTimeout, MaxExecMoves)

\* The merged-moves specification: runs of moves of one keyframe.
NextMoves ==
    \/ ExecuteMoves
    \/ Commit
    \/ Undo
    \/ Redo

SpecMoves == Init /\ [][NextMoves]_vars

\* the commands of the end-point removal specification: a segment added to the first
\* path, and any selection of end points of the first path removed
EndsCalls(g) ==
    {b \in AddSegmentCmds(g) : b.c.path = 1}
    \cup {Built(g, MkRemovePathsAndEndControls(g, {CtlEnt(e) : e \in sel})) :
             sel \in (SUBSET {e \in Range(PathControls(g, 1)) : g.ctl[e].isEnd}) \ {{}}}

ExecuteEnds ==
    \E b \in EndsCalls(geo) :
        Execute("T1", b.c, b.g, DefaultMergeTimeout, MaxExecEnds)

\* The end-point removal specification: a path that grows, and selections of its end
\* points removed.
NextEnds ==
    \/ ExecuteEnds
    \/ Commit
    \/ Undo
    \/ Redo

SpecEnds == Init /\ [][NextEnds]_vars

\* one step of the clock of the merge-window specification: half the default window
WaitMs == DefaultMergeTimeout \div 2

\* time passes between two calls, half a merge window at a time
Wait ==
    /\ lastExecution # None
    /\ now < MaxWaits * WaitMs
    /\ now' = now + WaitMs
    /\ UNCHANGED <<geo, lastExecution, history, redoHistory, saveStepCounter, obs, track>>

\* the commands of the merge-window specification: drags of the first end point alone,
\* with one follower, with another follower and with both in either order, a drag of
\* the second end point alone, and a property update
WindowCalls(g) ==
    DragCmds(g, {1}, {<<>>, <<3>>, <<4>>, <<3, 4>>, <<4, 3>>}) \cup DragCmds(g, {2}, {<<>>})
    \cup {Built(g, MkUpdate("UpdateInteractiveEntities", <<CtlEnt(2)>>, [visible |-> FALSE]))}

ExecuteWindow ==
    \E b \in WindowCalls(geo) :
        Execute("T1", b.c, b.g, DefaultMergeTimeout, MaxExecWindow)

\* The merge-window specification: drags under one title at different times.
NextWindow ==
    \/ ExecuteWindow
    \/ Wait
    \/ Commit
    \/ Undo
    \/ Redo

SpecWindow == Init /\ [][NextWindow]_vars

----------------------------------------------------------------------------
(* Claims *)

\* C1: once every executed command has been undone (the undo stack is empty, nothing
\* is pending, and no entry was discarded for capacity), the geometry graph is exactly
\* the graph from before the first command: same objects, positions and sharing.
C1_UndoAllRestoresGraph ==
    (history = <<>> /\ lastExecution = None /\ track.dropped = <<>>)
        => View(geo) = track.base

\* C2: a redo() leaves the graph exactly as it was when the redone command was undone,
\* that is, as it was after the original executes.
C2_RedoReproducesGraph ==
    (obs.op = "redo" /\ obs.acted) => View(geo) = obs.expect

\* C3: after save(), once a new command has been executed (and no undo, redo, save or
\* clearHistory came after it), isModified() returns true.
C3_ModifiedAfterNewCommand ==
    (obs.op = "isModified" /\ track.saved /\ track.fresh) => obs.ret

\* whether the events since save() cancel out: k commits and k undos, or k undos
\* and k redos
Balanced(log) ==
    \/ (IsRun(log, "c", "u") /\ CountOf(log, "c") = CountOf(log, "u"))
    \/ (IsRun(log, "u", "r") /\ CountOf(log, "u") = CountOf(log, "r"))

\* C4: after save() followed by k commits and then j <= k undos, or by k undos and then
\* j <= k redos, isModified() returns false exactly when j = k (k = 0: right after save).
C4_ModifiedAroundSave ==
    (obs.op = "isModified" /\ track.saved /\ track.sinceSave # Poison)
        => (obs.ret = ~Balanced(track.sinceSave))

C4_Witness ==
    /\ obs.op = "isModified"
    /\ track.saved
    /\ track.sinceSave = <<"c", "c", "u", "u">>
    /\ ~obs.ret

\* C5: the undo stack never holds more than maxHistory commands.
C5_UndoStackBounded == Len(history) <= maxHistory

C5_Witness ==
    /\ obs.op = "redo"
    /\ obs.acted
    /\ Len(history) = maxHistory
    /\ track.dropped # <<>>

\* the commands whose effects are applied are the discarded ones followed by the
\* undo stack, oldest first, and no discarded command is on the redo stack
C6_Stacks ==
    /\ track.applied = track.dropped \o Serials(history)
    /\ Range(Serials(redoHistory)) \cap Range(track.dropped) = {}

\* a step discards an entry only when the push made the stack maxHistory + 1 long,
\* and then exactly the oldest one; an undo() that finds nothing to pop changes nothing
C6_Step ==
    /\ Len(track'.dropped) > Len(track.dropped) =>
          /\ lastExecution # None
          /\ Len(history) = maxHistory
          /\ track'.dropped =
                 Append(track.dropped, Append(history, lastExecution.command)[1].aux.sn)
    /\ (obs'.op = "undo" /\ ~obs'.acted) =>
          (geo' = geo /\ history' = <<>> /\ redoHistory' = redoHistory
           /\ saveStepCounter' = saveStepCounter)

\* C6: a commit beyond maxHistory silently discards exactly the oldest entry of the undo
\* stack: undo() then reverts the newest commands, newest first, and becomes a no-op with
\* the discarded commands still applied.
C6_TrimDiscardsOldest == []C6_Stacks /\ [][C6_Step]_vars

C6_Witness ==
    /\ obs.op = "undo"
    /\ ~obs.acted
    /\ track.dropped # <<>>
    /\ Len(redoHistory) = maxHistory

\* C7: after every execute, merged or not, the redo stack is empty.
C7_ExecuteClearsRedo == (obs.op = "execute") => redoHistory = <<>>

C7_Witness == obs.op = "execute" /\ obs.redoBefore > 0 /\ obs.merge = "none"

\* C8: execute passes the new command to pending.merge only when both are of the same
\* class; a mergeable command of another class becomes the new pending entry.
C8_MergeOnlySameClass ==
    (obs.op = "execute" /\ obs.prev # None /\ obs.prev.command.cls # obs.command.cls)
        => /\ obs.merge = "none"
           /\ lastExecution # None
           /\ lastExecution.command.aux.sn = obs.command.aux.sn

\* C9: a command is merged only when the time since the pending entry's timestamp is
\* strictly below the mergeTimeout of this call; with mergeTimeout 0 nothing is merged
\* and the command becomes the pending entry.
C9_MergeOnlyInsideWindow ==
    (obs.op = "execute") =>
        /\ (obs.merge # "none") => (0 <= obs.elapsed /\ obs.elapsed < obs.mergeTimeout)
        /\ (obs.mergeTimeout = 0) =>
              /\ obs.merge = "none"
              /\ lastExecution # None
              /\ lastExecution.command.aux.sn = obs.command.aux.sn
              /\ lastExecution.command.aux.merges = 0

C9_Witness ==
    /\ obs.op = "execute"
    /\ obs.mergeTimeout = 0
    /\ obs.elapsed = 0
    /\ obs.prev # None
    /\ obs.prev.title = lastExecution.title
    /\ obs.prev.command.cls = obs.command.cls

\* whether two executed commands are of the same class and act on the same objects
SameTargets(a, b) ==
    /\ a.cls = b.cls
    /\ a.cls \in UIPClasses => a.targets = b.targets
    /\ a.cls = "DragControls" => (a.main = b.main /\ a.followers = b.followers)
    /\ a.cls = "MoveKeyframe" => a.kf = b.kf

\* C10: when execute merged B into the pending A, one undo() restores the graph from
\* before A; and merge returns false for commands that do not act on the same objects.
C10_MergedUndoRestoresAll ==
    /\ (obs.op = "undo" /\ obs.acted /\ obs.wasMerged) => View(geo) = obs.expect
    /\ (obs.op = "execute" /\ obs.merge # "none"
            /\ ~SameTargets(obs.prev.command, obs.command))
          => obs.merge = "false"

\* what one execute call does, and what a commit of the pending entry does
C11_Step ==
    /\ (track'.nExec = track.nExec + 1) =>
          /\ obs'.op = "execute"
          /\ obs'.command.aux.sn = track'.nExec
          /\ \E call \in HistoryCalls(geo) :
                /\ geo' = CmdExecute(geo, call[2]).g
                /\ obs'.command.cls = call[2].cls
    /\ (track'.nExec = track.nExec + 1 /\ obs'.merge = "true") =>
          /\ history' = history
          /\ redoHistory' = redoHistory
          /\ saveStepCounter' = saveStepCounter
          /\ lastExecution # None /\ lastExecution' # None
          /\ lastExecution'.title = lastExecution.title
          /\ lastExecution'.mergeTimeout = lastExecution.mergeTimeout
          /\ lastExecution'.time = now
          /\ lastExecution'.command.aux.sn = lastExecution.command.aux.sn
          /\ lastExecution'.command.aux.merges = lastExecution.command.aux.merges + 1
    /\ (obs'.op = "commit" /\ lastExecution # None /\ lastExecution' = None) =>
          /\ saveStepCounter' = saveStepCounter + 1
          /\ Len(history') <= Len(history) + 1
          /\ history'[Len(history')] = lastExecution.command

\* C11: every execute call runs command.execute() once; a successful merge changes only
\* the pending entry (its time, and the command merge() updated): no undo entry, no
\* counter change, so a run of merged commands is one entry and one increment at commit.
C11_MergeKeepsOneEntry == [][C11_Step]_vars

C11_Witness ==
    /\ obs.op = "commit"
    /\ Len(history) = 1
    /\ history[1].aux.merges = 2
    /\ saveStepCounter = 1

\* the calls that commit the pending entry first
CommittingOps == {"commit", "undo", "save", "isModified"}

\* an execute call right after one of those calls makes its command the pending entry
C12_Step ==
    (obs.op \in CommittingOps /\ track'.nExec = track.nExec + 1) =>
        /\ obs'.merge = "none"
        /\ lastExecution' # None
        /\ lastExecution'.command.aux.sn = track'.nExec
        /\ lastExecution'.command.aux.merges = 0
        /\ \A i \in 1..Len(history') : history'[i].aux.sn \in Range(Serials(history))

\* C12: after commit(), undo(), save() or isModified() nothing is pending, so the next
\* executed command is not merged with a command executed before that call.
C12_NoMergeAcrossCommit ==
    [](obs.op \in CommittingOps => lastExecution = None) /\ [][C12_Step]_vars

C12_Witness ==
    /\ obs.op = "execute"
    /\ obs.prev = None
    /\ obs.merge = "none"
    /\ obs.mergeTimeout = DefaultMergeTimeout
    /\ now = 0
    /\ obs.redoBefore = 0
    /\ Len(history) > 0
    /\ history[Len(history)].cls = obs.command.cls
    /\ history[Len(history)].cls = "UpdateInteractiveEntities"

\* over an execute call the commands on the two stacks stay as they are: the undo
\* stack can only gain the pending command as it was, and merge() gets the pending
\* command and the command of this call
C13_Step ==
    (track'.nExec = track.nExec + 1) =>
        /\ \A j \in 1..Len(history') :
              history'[j] \in Range(history)
                  \cup (IF lastExecution # None THEN {lastExecution.command} ELSE {})
        /\ \A j \in 1..Len(redoHistory') : redoHistory'[j] \in Range(redoHistory)
        /\ (obs'.merge # "none") =>
              /\ lastExecution # None
              /\ obs'.prev = lastExecution
              /\ obs'.command.aux.sn = track'.nExec
        /\ (obs'.merge = "true") =>
              /\ history' = history
              /\ lastExecution'.command.aux.sn = lastExecution.command.aux.sn

\* C13: merge() is called only on the pending command, with the command just executed;
\* a command that is on the undo or redo stack is not changed by a later execute.
C13_StackedCommandsFrozen == [][C13_Step]_vars

C13_Witness ==
    /\ obs.op = "execute"
    /\ obs.merge = "true"
    /\ Len(history) > 0
    /\ history[Len(history)].cls = lastExecution.command.cls

\* the command classes that declare no entities property
ClassesWithoutEntities == {"UpdateProperties", "MoveKeyframe", "AddKeyframe", "RemoveKeyframe"}

\* C14: app.setSelected is called exactly by an undo() or redo() that popped a command
\* with an entities property, with the entities the command reports after its undo()
\* or redo() ran; no other call, and no undo/redo on an empty stack, calls it.
C14_SelectionOnUndoRedo ==
    /\ (obs.op \notin {"undo", "redo"}) => obs.setSelected = <<>>
    /\ (obs.op \in {"undo", "redo"} /\ ~obs.acted) => obs.setSelected = <<>>
    /\ (obs.op \in {"undo", "redo"} /\ obs.acted) =>
          IF obs.command.cls \in ClassesWithoutEntities
          THEN obs.setSelected = <<>>
          ELSE obs.setSelected = <<CmdEntities(geo, obs.command)>>

C14_Witness ==
    /\ obs.op = "undo"
    /\ obs.acted
    /\ obs.command.cls = "AddSegment"
    /\ obs.setSelected = << <<>> >>

\* what a pending property update holds: for every target and every key it sets, the
\* value from before the first command of the run, and the value the target has now
C15_Pending ==
    (lastExecution # None /\ lastExecution.command.cls \in UIPClasses) =>
        LET c == lastExecution.command
        IN  /\ Len(c.previousValue) = Len(c.targets)
            /\ \A i \in 1..Len(c.targets) :
                  /\ DOMAIN c.previousValue[i] = DOMAIN c.newValues
                  /\ \A k \in DOMAIN c.newValues :
                        /\ c.previousValue[i][k] = GetProp(c.aux.pre, c.targets[i], k)
                        /\ GetProp(geo, c.targets[i], k) = c.newValues[k]

\* C15: property updates merged on one target list keep, per target and property, the
\* value from before the first command and the newest value to apply: undo() restores
\* every touched property and redo() brings back the state after the last command.
C15_MergedUpdateKeepsOldestAndNewest ==
    /\ C15_Pending
    /\ (obs.op \in {"undo", "redo"} /\ obs.acted) => View(geo) = obs.expect

C15_Witness ==
    /\ obs.op = "redo"
    /\ obs.acted
    /\ obs.command.aux.merges = 2
    /\ Len(obs.command.targets) = 2
    /\ DOMAIN obs.command.newValues = {"visible", "lock"}
    /\ geo.ctl[1].visible /\ geo.ctl[1].lock

\* C16: drags of one main control with one follower list, each starting where the last
\* one ended, merge into one undo step: undo() puts the main control back at the first
\* `from` and every follower where it was, redo() puts them where the last drag left them.
C16_MergedDragRoundTrip ==
    (obs.op \in {"undo", "redo"} /\ obs.acted /\ obs.command.cls = "DragControls"
        /\ obs.command.aux.merges > 0)
        => LET c == obs.command
           IN  /\ XY(geo, c.main) = (IF obs.op = "undo" THEN c.from ELSE c.to)
               /\ \A i \in 1..Len(c.followers) :
                     XY(geo, c.followers[i]) =
                         (IF obs.op = "undo" THEN XY(c.aux.pre, c.followers[i])
                          ELSE XY(obs.expect, c.followers[i]))
               /\ (obs.op = "undo") => XY(c.aux.pre, c.main) = c.from
               /\ c.to = VAdd(c.from, <<(c.aux.merges + 1) * DragBy[1],
                                        (c.aux.merges + 1) * DragBy[2]>>)

C16_Witness ==
    /\ obs.op = "redo"
    /\ obs.acted
    /\ obs.command.cls = "DragControls"
    /\ obs.command.aux.merges = 1
    /\ Len(obs.command.followers) = 1
    /\ obs.command.followers[1] # obs.command.main
    /\ XY(geo, obs.command.followers[1]) # XY(InitGeo, obs.command.followers[1])

\* a split of a 4-control segment that was found in its path
C17_CubicSplit(c) ==
    /\ c.cls = "SplitSegment"
    /\ Len(c.previousOriginalSegmentControls) = 4
    /\ c.newSegment # 0

\* the two segments after the split: [p0, p1, a, X] and, right behind it, [X, c, p2, p3]
C17_SplitShape(g, c) ==
    LET prev == c.previousOriginalSegmentControls
        segs == g.pth[c.path].segments
        i == IndexOf(segs, c.originalSegment)
        a == c._entities[1][2]
        cc == c._entities[3][2]
    IN  /\ i # -1
        /\ Len(segs) >= i + 2
        /\ segs[i + 2] = c.newSegment
        /\ c._entities[2] = CtlEnt(c.point)
        /\ {a, cc} \cap (Range(prev) \cup {c.point}) = {}
        /\ a # cc
        /\ ~g.ctl[a].isEnd /\ ~g.ctl[cc].isEnd
        /\ g.seg[c.originalSegment].controls = <<prev[1], prev[2], a, c.point>>
        /\ g.seg[c.newSegment].controls = <<c.point, cc, prev[3], prev[4]>>
        /\ SpliceOut(segs, i + 1) = c.aux.pre.pth[c.path].segments

\* C17: SplitSegment on a 4-control segment [p0, p1, p2, p3] at index i leaves it as
\* [p0, p1, a, X] and inserts [X, c, p2, p3] at index i + 1; undo() restores the four
\* controls and removes the new segment; redo() brings back the same two segments with
\* the same a, X and c.
C17_SplitCubicRoundTrip ==
    /\ (obs.op = "execute" /\ C17_CubicSplit(obs.command)) => C17_SplitShape(geo, obs.command)
    /\ (obs.op = "undo" /\ obs.acted /\ C17_CubicSplit(obs.command)) =>
          /\ geo.seg[obs.command.originalSegment].controls =
                 obs.command.previousOriginalSegmentControls
          /\ geo.pth[obs.command.path].segments =
                 obs.command.aux.pre.pth[obs.command.path].segments
    /\ (obs.op = "redo" /\ obs.acted /\ C17_CubicSplit(obs.command)) =>
          /\ C17_SplitShape(geo, obs.command)
          /\ geo.pth[obs.command.path].segments = obs.expect.pth[obs.command.path].segments
          /\ geo.seg[obs.command.originalSegment].controls =
                 obs.expect.seg[obs.command.originalSegment].controls
          /\ geo.seg[obs.command.newSegment].controls =
                 obs.expect.seg[obs.command.newSegment].controls

C17_Witness ==
    /\ obs.op = "redo"
    /\ obs.acted
    /\ C17_CubicSplit(obs.command)
    /\ Len(geo.pth[obs.command.path].segments) = 3

\* the keyframes of a list are in ascending order of xPos
C18_Sorted(g, sp) ==
    \A i, j \in 1..Len(sp) : i < j => g.kfr[sp[i]].xPos <= g.kfr[sp[j]].xPos

\* keyframe kf comes after every other keyframe of the list with the same xPos
C18_AfterEquals(g, sp, kf) ==
    \A i, j \in 1..Len(sp) :
        (sp[i] = kf /\ sp[j] # kf /\ g.kfr[sp[j]].xPos = g.kfr[kf].xPos) => j < i

\* C18: under AddKeyframe, MoveKeyframe and RemoveKeyframe with their undo, redo and
\* merge every segment's keyframe list is sorted ascending by xPos, and a keyframe
\* added or moved to an xPos other keyframes have is placed after them.
C18_KeyframesSorted ==
    /\ \A s \in 1..Len(geo.seg) : C18_Sorted(geo, geo.seg[s].speedProfiles)
    /\ (obs.op \in {"execute", "redo"} /\ obs.command # None
            /\ obs.command.cls = "AddKeyframe"
            /\ (obs.op = "redo" => obs.acted)) =>
          C18_AfterEquals(geo, geo.seg[obs.command.pos.segment].speedProfiles,
                          obs.command.kf)
    /\ (obs.op \in {"execute", "redo"} /\ obs.command # None
            /\ obs.command.cls = "MoveKeyframe"
            /\ (obs.op = "redo" => obs.acted)) =>
          C18_AfterEquals(geo, geo.seg[obs.command.newPos.segment].speedProfiles,
                          obs.command.kf)

\* the command removes one end point, E1, from a path that had three segments
\* s0, s1, s2 over E0-E1-E2-E3 when the command was executed
C19_MiddleRemoval(c) ==
    /\ c.cls = "RemovePathsAndEndControls"
    /\ c.removalPaths = <<>>
    /\ Len(c.removalEndControls) = 1
    /\ LET pre == c.aux.pre
           p == c.removalEndControls[1].path
           e1 == c.removalEndControls[1].control
       IN  /\ Len(pre.pth[p].segments) = 3
           /\ LET s0 == pre.pth[p].segments[1]
                  s1 == pre.pth[p].segments[2]
                  s2 == pre.pth[p].segments[3]
              IN  /\ SegLast(pre, s0) = e1 /\ SegFirst(pre, s1) = e1
                  /\ SegLast(pre, s1) = SegFirst(pre, s2)
                  /\ Cardinality({SegFirst(pre, s0), e1, SegLast(pre, s1),
                                  SegLast(pre, s2)}) = 4

\* C19: removing the end point E1 of a path s0, s1, s2 over E0-E1-E2-E3 leaves s0, now
\* ending at the E2 object, followed by s2, with s1 deleted; undo() restores s0, s1, s2
\* in order with s0.last = E1 = s1.first and s1.last = E2 = s2.first.
C19_RemoveMiddleEndPoint ==
    (obs.op \in {"execute", "undo"} /\ obs.command # None
        /\ (obs.op = "undo" => obs.acted) /\ C19_MiddleRemoval(obs.command)) =>
        LET pre == obs.command.aux.pre
            p == obs.command.removalEndControls[1].path
            e1 == obs.command.removalEndControls[1].control
            s0 == pre.pth[p].segments[1]
            s1 == pre.pth[p].segments[2]
            s2 == pre.pth[p].segments[3]
            e2 == SegLast(pre, s1)
        IN  IF obs.op = "execute"
            THEN /\ geo.pth[p].segments = <<s0, s2>>
                 /\ SegLast(geo, s0) = e2
                 /\ Pop(geo.seg[s0].controls) = Pop(pre.seg[s0].controls)
                 /\ geo.seg[s2].controls = pre.seg[s2].controls
                 /\ SegFirst(geo, s2) = e2
            ELSE /\ geo.pth[p].segments = <<s0, s1, s2>>
                 /\ geo.seg[s0].controls = pre.seg[s0].controls
                 /\ geo.seg[s1].controls = pre.seg[s1].controls
                 /\ geo.seg[s2].controls = pre.seg[s2].controls
                 /\ SegLast(geo, s0) = e1 /\ SegFirst(geo, s1) = e1
                 /\ SegLast(geo, s1) = e2 /\ SegFirst(geo, s2) = e2

C19_Witness ==
    /\ obs.op = "undo"
    /\ obs.acted
    /\ C19_MiddleRemoval(obs.command)
    /\ Len(geo.pth[obs.command.removalEndControls[1].path].segments) = 3

\* the end points of path p in graph g
C20_EndPoints(g, p) == {e \in Range(PathControls(g, p)) : g.ctl[e].isEnd}

\* what execute() of a removal with the ids `named` leaves, given the graph before it
C20_Executed(g, c) ==
    LET pre == c.aux.pre
        gone == {p \in Range(pre.paths) : PathEnt(p) \in c.named}
        kept == Range(pre.paths) \ gone
        requests == {[path |-> p, control |-> e] :
                        p \in kept, e \in {x \in LiveCtls(pre) : CtlEnt(x) \in c.named}}
    IN  /\ g.paths = SelectSeq(pre.paths, LAMBDA p : p \notin gone)
        /\ Range(c.removalPaths) = gone
        /\ \A p \in gone :
              /\ g.pth[p].segments = pre.pth[p].segments
              /\ \A s \in Range(g.pth[p].segments) : g.seg[s].controls = pre.seg[s].controls
        /\ Range(c.removalEndControls) =
               {r \in requests : r.control \in C20_EndPoints(pre, r.path)}
        /\ \A i \in 1..Len(c.affectedSegments) : c.affectedSegments[i].path \in kept
        /\ \A p \in kept :
              /\ \A e \in C20_EndPoints(pre, p) :
                    CtlEnt(e) \in c.named => e \notin Range(PathControls(g, p))
              /\ (\A e \in C20_EndPoints(pre, p) : CtlEnt(e) \notin c.named) =>
                    /\ g.pth[p].segments = pre.pth[p].segments
                    /\ \A s \in Range(g.pth[p].segments) :
                          g.seg[s].controls = pre.seg[s].controls

\* C20: a removal given paths and controls removes every named path as a whole, without
\* removing controls inside it; in the other paths it removes the named end points only
\* (interior controls and unknown ids are ignored); undo() puts every removed path back
\* at its index in the paths list.
C20_MixedRemoval ==
    /\ (obs.op = "execute" /\ HasField(obs.command, "named")) => C20_Executed(geo, obs.command)
    /\ (obs.op = "undo" /\ obs.acted /\ HasField(obs.command, "named")) =>
          /\ geo.paths = obs.command.aux.pre.paths
          /\ View(geo) = obs.expect
    /\ (obs.op = "redo" /\ obs.acted /\ HasField(obs.command, "named")) =>
          View(geo) = obs.expect

C20_Witness ==
    /\ obs.op = "undo"
    /\ obs.acted
    /\ HasField(obs.command, "named")
    /\ obs.command.removalPaths = <<2>>
    /\ Len(obs.command.removalEndControls) = 1
    /\ {CtlEnt(3), CtlEnt(6), <<"C", 0>>} \subseteq obs.command.named
    /\ geo.paths = <<1, 2>>

\* the step is a call of execute(), or an undo() or redo() that found a command
C21_Call ==
    /\ obs'.command # None
    /\ \/ obs'.op = "execute" /\ track'.nExec = track.nExec + 1
       \/ obs'.op \in {"undo", "redo"} /\ obs'.acted

C21_Step ==
    (/\ C21_Call
     /\ obs'.command.cls = "SplitSegment"
     /\ obs'.command.newSegment = 0
     /\ IndexOf(geo.pth[obs'.command.path].segments, obs'.command.originalSegment) = -1)
        => LET c == obs'.command
           IN  /\ geo'.pth[c.path].segments = geo.pth[c.path].segments
               /\ geo'.seg[c.originalSegment].controls = geo.seg[c.originalSegment].controls
               /\ SplitSegmentEntities(geo', c) = <<>>

\* C21: a SplitSegment whose segment is not in its path changes neither the path's
\* segment list nor the segment's controls in execute(), in a following undo() and in a
\* following redo(), and reports no entities.
C21_SplitNotFoundNoOp == [][C21_Step]_vars

C22_Step ==
    (/\ C21_Call
     /\ obs'.op = "execute"
     /\ obs'.command.cls = "ConvertSegment"
     /\ IndexOf(geo.pth[obs'.command.path].segments, obs'.command.segment) = -1)
        => LET c == obs'.command
           IN  /\ geo'.seg[c.segment].controls = geo.seg[c.segment].controls
               /\ ConvertSegmentEntities(geo', c) = <<>>

\* C22: a ConvertSegment whose segment is not in its path leaves the segment's control
\* list as it was, for LINEAR and for CUBIC, and reports no entities.
C22_ConvertNotFoundNoOp == [][C22_Step]_vars

C29_Step ==
    (/\ C21_Call
     /\ obs'.command.cls = "MoveKeyframe"
     /\ \/ obs'.op = "execute" /\ HolderOf(geo, obs'.command.path, obs'.command.kf) = 0
        \/ obs'.op = "undo" /\ obs'.command.oldPos = NoPos)
        => /\ \A s \in 1..Len(geo.seg) : geo'.seg[s].speedProfiles = geo.seg[s].speedProfiles
           /\ geo'.kfr[obs'.command.kf] = geo.kfr[obs'.command.kf]

\* C29: a MoveKeyframe whose keyframe is in no segment of its path changes no keyframe
\* list and not the keyframe's xPos and yPos, in execute() and in a following undo().
C29_MoveNotFoundNoOp == [][C29_Step]_vars

C28_Step ==
    (/\ obs.op = "execute"
     /\ obs.command # None
     /\ obs.command.cls = "MoveKeyframe"
     /\ obs'.op = "undo"
     /\ obs'.acted
     /\ obs'.command.aux.sn = obs.command.aux.sn
     /\ obs'.command.oldPos # NoPos)
        => LET c == obs'.command
           IN  geo'.seg[c.oldPos.segment].speedProfiles
                   = c.aux.pre.seg[c.oldPos.segment].speedProfiles

\* C28: undo() right after MoveKeyframe.execute() leaves the old segment's keyframe list
\* exactly as it was before the move, the moved keyframe at its place among keyframes
\* of the same xPos.
C28_MoveUndoRestoresOrder == [][C28_Step]_vars

\* what RemoveKeyframe leaves after execute(), undo() and redo()
C25_After ==
    (obs.command # None /\ obs.command.cls = "RemoveKeyframe"
        /\ (obs.op = "execute" \/ (obs.op \in {"undo", "redo"} /\ obs.acted)))
        => LET c == obs.command
               list == geo.seg[c.segment].speedProfiles
           IN  IF c.segment = 0 THEN obs.op = "execute" => View(geo) = c.aux.pre
               ELSE /\ (obs.op = "execute") =>
                          /\ c.oldIdx = IndexOf(c.aux.pre.seg[c.segment].speedProfiles, c.kf)
                          /\ list = SpliceOut(c.aux.pre.seg[c.segment].speedProfiles, c.oldIdx)
                    /\ (obs.op = "undo") =>
                          /\ c.oldIdx + 1 \in 1..Len(list)
                          /\ list[c.oldIdx + 1] = c.kf
                          /\ IndexOf(SpliceOut(list, c.oldIdx), c.kf) = -1
                    /\ (obs.op = "redo") => IndexOf(list, c.kf) = -1

\* undo() right after execute() gives back the list execute() found; a command that
\* found no segment changes nothing in undo() and redo()
C25_Step ==
    /\ (/\ obs.op = "execute"
        /\ obs.command # None
        /\ obs.command.cls = "RemoveKeyframe"
        /\ obs.command.segment # 0
        /\ obs'.op = "undo"
        /\ obs'.acted
        /\ obs'.command.aux.sn = obs.command.aux.sn)
           => geo'.seg[obs.command.segment].speedProfiles
                  = obs.command.aux.pre.seg[obs.command.segment].speedProfiles
    /\ (/\ obs'.op \in {"undo", "redo"}
        /\ obs'.acted
        /\ obs'.command.cls = "RemoveKeyframe"
        /\ obs'.command.segment = 0)
           => geo' = geo

\* C25: RemoveKeyframe.execute() removes the keyframe from the segment that holds it
\* and records segment and index; undo() puts the same keyframe back at that index, so
\* that the list is the one before execute(); redo() removes the keyframe again; a
\* command whose keyframe no segment of the path holds changes nothing.
C25_RemoveKeyframeRoundTrip == []C25_After /\ [][C25_Step]_vars

\* keyframe kf is in the keyframe list of segment s
C27_Holds(g, s, kf) == IndexOf(g.seg[s].speedProfiles, kf) # -1

\* C27: MoveKeyframe commands on one keyframe that are merged are one move: undo() takes
\* the keyframe out of the segment of the last move and puts it back in the segment, at
\* the xPos and yPos, it had before the first move; redo() puts it at the last move's
\* segment and position; merge returns false and changes nothing when the keyframes
\* differ.
C27_MergedMovesAreOneMove ==
    /\ (obs.op = "execute" /\ obs.merge = "true" /\ obs.command.cls = "MoveKeyframe"
            /\ obs.prev.command.cls = "MoveKeyframe") =>
          /\ obs.command.kf = obs.prev.command.kf
          /\ lastExecution.command.newPos = obs.command.newPos
          /\ lastExecution.command.oldPos = obs.prev.command.oldPos
    /\ (obs.op = "execute" /\ obs.merge = "false" /\ obs.command.cls = "MoveKeyframe"
            /\ obs.prev.command.cls = "MoveKeyframe") =>
          /\ obs.command.kf # obs.prev.command.kf
          /\ history[Len(history)] = obs.prev.command
          /\ lastExecution.command = obs.command
    /\ (obs.op \in {"undo", "redo"} /\ obs.acted /\ obs.command.cls = "MoveKeyframe"
            /\ obs.command.aux.merges > 0 /\ obs.command.oldPos # NoPos) =>
          LET c == obs.command
              at == IF obs.op = "undo" THEN c.oldPos ELSE c.newPos
              from == IF obs.op = "undo" THEN c.newPos ELSE c.oldPos
          IN  /\ C27_Holds(geo, at.segment, c.kf)
              /\ from.segment # at.segment => ~C27_Holds(geo, from.segment, c.kf)
              /\ geo.kfr[c.kf] = [xPos |-> at.xPos, yPos |-> at.yPos]
              /\ c.aux.pre.kfr[c.kf] = [xPos |-> c.oldPos.xPos, yPos |-> c.oldPos.yPos]
              /\ IndexOf(c.aux.pre.seg[c.oldPos.segment].speedProfiles, c.kf) # -1

\* C24: AddSegment.execute() appends one segment: its first control is the object that
\* was the path's last end point, or a new end point at the origin when the path was
\* empty, and its last control is the given end; undo() takes that segment off the end of
\* the path; redo() pushes the segment object execute() made, not a new one.
C24_AddSegmentRoundTrip ==
    (obs.command # None /\ obs.command.cls = "AddSegment"
        /\ (obs.op = "execute" \/ (obs.op \in {"undo", "redo"} /\ obs.acted)))
        => LET c == obs.command
               before == c.aux.pre.pth[c.path].segments
               now_ == geo.pth[c.path].segments
           IN  /\ (obs.op = "execute") =>
                     /\ now_ = Append(before, c.segment)
                     /\ c.segment \notin DOMAIN c.aux.pre.seg
                     /\ SegLast(geo, c.segment) = c.end
                     /\ Len(geo.seg[c.segment].controls) = (IF c.variant = "LINEAR" THEN 2 ELSE 4)
                     /\ IF Len(before) = 0
                        THEN /\ SegFirst(geo, c.segment) \notin DOMAIN c.aux.pre.ctl
                             /\ SegFirst(geo, c.segment) # c.end
                             /\ geo.ctl[SegFirst(geo, c.segment)].isEnd
                             /\ XY(geo, SegFirst(geo, c.segment)) = <<0, 0>>
                        ELSE LET cs == c.aux.pre.seg[before[Len(before)]].controls
                             IN  SegFirst(geo, c.segment) = cs[Len(cs)]
               /\ (obs.op = "undo") => now_ = before
               /\ (obs.op = "redo") =>
                     /\ now_ = Append(before, c.segment)
                     /\ now_ = obs.expect.pth[c.path].segments
                     /\ geo.seg[c.segment] = obs.expect.seg[c.segment]

C24_Witness ==
    /\ obs.op = "redo"
    /\ obs.acted
    /\ obs.command.cls = "AddSegment"
    /\ obs.command.variant = "CUBIC"
    /\ Len(geo.pth[obs.command.path].segments) = 3

\* the segments of path p share their end points: each segment starts at the control
\* the segment before it ends at
C26_Linked(g, p) ==
    LET segs == g.pth[p].segments
    IN  \A i \in 1..(Len(segs) - 1) : SegLast(g, segs[i]) = SegFirst(g, segs[i + 1])

\* C26: in every state reached by executing, undoing and redoing catalog commands,
\* adjacent segments of a path share the end point between them as one object.
C26_AdjacentSegmentsShareEndPoint == \A p \in 1..Len(geo.pth) : C26_Linked(geo, p)

C26_Witness ==
    /\ obs.op = "undo"
    /\ obs.acted
    /\ obs.command.cls = "RemovePathsAndEndControls"
    /\ \E i \in 1..Len(obs.command.affectedSegments) :
           obs.command.affectedSegments[i].linkNeeded
    /\ \E p \in Range(geo.paths) : Len(geo.pth[p].segments) = 3

\* what one call removeControl(request) does to graph g: nothing when the control neither
\* starts a segment of the path nor ends its last segment; else the first such segment,
\* and only it, leaves the path, and the segment before it gets a new last control
\* exactly when the removed control starts a segment that is not the path's first
C30_Call(g, c, request) ==
    LET r == RemoveControl(g, c, request)
        path == request.path
        control == request.control
        segs == g.pth[path].segments
        after == r.g.pth[path].segments
        n == Len(segs)
        starts == {i \in 1..n : SegFirst(g, segs[i]) = control}
        ends == n > 0 /\ SegLast(g, segs[n]) = control
        relinked == {s \in Range(after) : r.g.seg[s].controls # g.seg[s].controls}
    IN  IF starts = {} /\ ~ends
        THEN r.g = g /\ r.c = c
        ELSE LET k == IF starts # {} THEN Lowest(starts) ELSE n
             IN  /\ after = SpliceOut(segs, k - 1)
                 /\ Len(after) = n - 1
                 /\ \A p \in (DOMAIN g.pth) \ {path} : r.g.pth[p] = g.pth[p]
                 /\ Len(r.c.affectedSegments) = Len(c.affectedSegments) + 1
                 /\ (relinked # {}) <=> (starts # {} /\ k > 1)
                 /\ r.c.affectedSegments[Len(r.c.affectedSegments)].linkNeeded
                        <=> (starts # {} /\ k > 1)
                 /\ (relinked # {}) =>
                        /\ relinked = {segs[k - 1]}
                        /\ r.g.seg[segs[k - 1]].controls =
                               Append(Pop(g.seg[segs[k - 1]].controls), SegLast(g, segs[k]))
                 /\ (SegFirst(g, segs[1]) = control) =>
                        (after = Tail(segs) /\ relinked = {})
                 /\ (starts = {}) =>
                        (after = SubSeq(segs, 1, n - 1) /\ relinked = {})
                 /\ (n = 1) => after = <<>>

\* the calls of execute()'s loop over removalEndControls, from the i-th on, each on the
\* graph the calls before it left; the last leaves the segments that graph `final` has
RECURSIVE C30_Calls(_, _, _, _)
C30_Calls(g, c, i, final) ==
    IF i > Len(c.removalEndControls)
    THEN /\ c.affectedSegments = final.c.affectedSegments
         /\ \A p \in DOMAIN g.pth : g.pth[p].segments = final.g.pth[p].segments
    ELSE /\ C30_Call(g, c, c.removalEndControls[i])
         /\ LET r == RemoveControl(g, c, c.removalEndControls[i])
            IN  C30_Calls(r.g, r.c, i + 1, final)

\* C30: removeControl removes exactly one segment per removed control and gives the
\* segment before it a new last control exactly when the removed control is the first
\* control of a segment with index greater than 0; removing the path's first control
\* deletes segment 0 without relinking, removing the last control of the last segment
\* deletes the last segment without relinking, and a path of a single segment is left
\* with zero segments.
C30_RemoveControlRelinks ==
    (obs.op = "execute" /\ obs.command # None
        /\ obs.command.cls = "RemovePathsAndEndControls") =>
        C30_Calls(obs.command.aux.pre,
                  [obs.command EXCEPT !.affectedSegments = <<>>, !._entities = <<>>],
                  1, [g |-> geo, c |-> obs.command])

C30_Witness ==
    /\ obs.op = "execute"
    /\ obs.command # None
    /\ obs.command.cls = "RemovePathsAndEndControls"
    /\ Len(obs.command.affectedSegments) = 2
    /\ obs.command.affectedSegments[1].linkNeeded
    /\ ~obs.command.affectedSegments[2].linkNeeded
    /\ \E p \in Range(geo.paths) : Len(geo.pth[p].segments) = 1

\* the entities of the graph the editor shows: its paths and their controls
C23_Shown(g) ==
    {PathEnt(p) : p \in Range(g.paths)} \cup {CtlEnt(c) : c \in DOMAIN View(g).ctl}

\* a step that executes, undoes or redoes a command of one of the four classes
C23_Acts ==
    /\ obs'.command # None
    /\ obs'.command.cls \in {"AddSegment", "SplitSegment", "AddPath",
                            "RemovePathsAndEndControls"}
    /\ \/ obs'.op = "execute" /\ track'.nExec = track.nExec + 1
       \/ obs'.op \in {"undo", "redo"} /\ obs'.acted

C23_Step ==
    C23_Acts =>
        LET c == obs'.command
            reported == CmdEntities(geo', c)
        IN  IF c.cls = "RemovePathsAndEndControls"
            THEN IF obs'.op = "undo"
                 THEN Range(reported) = C23_Shown(geo') \ C23_Shown(geo)
                 ELSE reported = <<>>
            ELSE IF obs'.op = "undo"
                 THEN reported = <<>>
                 ELSE Range(reported) = C23_Shown(geo') \ C23_Shown(geo)

\* C23: the entities a command reports reflect its current direction: AddSegment,
\* SplitSegment and AddPath report the entities they created after execute() and redo()
\* and an empty list after undo(); RemovePathsAndEndControls reports an empty list
\* after execute() and redo() and exactly the removed entities after undo().
C23_EntitiesReflectDirection == [][C23_Step]_vars

\* C36: in every reachable state of CommandHistory, if an uncommitted entry is pending
\* then the redo stack is empty; so a redo() that popped a command ran with nothing
\* pending, and redo() itself leaves lastExecution as it was.
C36_PendingMeansNoRedo ==
    /\ (lastExecution # None) => redoHistory = <<>>
    /\ (obs.op = "redo" /\ obs.acted) => (obs.prev = None /\ lastExecution = None)

C36_Witness ==
    /\ obs.op = "execute"
    /\ obs.redoBefore > 0
    /\ lastExecution # None
    /\ Len(history) > 0

\* without a save() since the last clearHistory(), the counter is the length of the undo
\* stack plus the number of entries the capacity has discarded
C37_Unsaved ==
    (~track.saved) =>
        /\ saveStepCounter = Len(history) + Len(track.dropped)
        /\ (track.dropped = <<>>) => saveStepCounter = Len(history)
        /\ (track.dropped # <<>>) => saveStepCounter > Len(history)

\* a call changes the counter by the entries it commits, minus one if it is an undo()
\* that popped a command, plus one if it is a redo() that popped one; save() and
\* clearHistory() leave it 0
C37_Step ==
    (now' = now) =>
        LET committed ==
                /\ lastExecution # None
                /\ \/ obs'.op \in {"commit", "undo", "save", "isModified"}
                   \/ obs'.op = "execute" /\ obs'.merge \notin {"true", "throw"}
            undone == obs'.op = "undo" /\ obs'.acted
            redone == obs'.op = "redo" /\ obs'.acted
        IN  IF obs'.op \in {"save", "clearHistory"}
            THEN saveStepCounter' = 0
            ELSE saveStepCounter' = saveStepCounter + (IF committed THEN 1 ELSE 0)
                                        - (IF undone THEN 1 ELSE 0)
                                        + (IF redone THEN 1 ELSE 0)

\* C37: the save counter equals the entries committed minus the successful undos plus
\* the successful redos since the last save() or clearHistory(); without a save() since
\* clearHistory() it equals the undo stack length while nothing was trimmed, and exceeds
\* the undo stack length once the capacity has discarded an entry.
C37_CounterCountsCommits == []C37_Unsaved /\ [][C37_Step]_vars

C37_Witness ==
    /\ ~track.saved
    /\ obs.op = "undo"
    /\ obs.acted
    /\ Len(track.dropped) = 1
    /\ saveStepCounter = Len(history) + 1
    /\ Len(redoHistory) = 1

\* a step of undo() or redo(): undo() first commits what is pending, which may discard
\* the oldest entry; with a stack that is then not empty it moves the top command to
\* the redo stack and takes one off the counter; redo() moves the top of the redo stack
\* back and adds one; with nothing to pop either call changes nothing
C34_Step ==
    (now' = now /\ obs'.op \in {"undo", "redo"}) =>
        IF obs'.op = "undo"
        THEN IF lastExecution = None /\ history = <<>>
             THEN /\ ~obs'.acted
                  /\ UNCHANGED <<geo, lastExecution, history, redoHistory, saveStepCounter>>
             ELSE LET pending == lastExecution # None
                      top == IF pending THEN lastExecution.command
                             ELSE history[Len(history)]
                      rest == IF pending THEN history ELSE Pop(history)
                  IN  /\ obs'.acted
                      /\ obs'.command.aux.sn = top.aux.sn
                      /\ lastExecution' = None
                      /\ Serials(redoHistory') = Append(Serials(redoHistory), top.aux.sn)
                      /\ Serials(history') =
                             (IF pending /\ Len(history) = maxHistory
                              THEN Tail(Serials(rest)) ELSE Serials(rest))
                      /\ saveStepCounter' = saveStepCounter + (IF pending THEN 1 ELSE 0) - 1
        ELSE IF redoHistory = <<>>
             THEN /\ ~obs'.acted
                  /\ UNCHANGED <<geo, lastExecution, history, redoHistory, saveStepCounter>>
             ELSE LET top == redoHistory[Len(redoHistory)]
                  IN  /\ obs'.acted
                      /\ obs'.command.aux.sn = top.aux.sn
                      /\ lastExecution' = lastExecution
                      /\ Serials(redoHistory') = Pop(Serials(redoHistory))
                      /\ Serials(history') = Append(Serials(history), top.aux.sn)
                      /\ saveStepCounter' = saveStepCounter + 1

\* C34: undo() with a non-empty undo stack (after committing what is pending) moves
\* exactly the top command from the undo stack to the redo stack and decrements the
\* counter by one, and redo() with a non-empty redo stack does the inverse; undo() with
\* nothing pending and an empty undo stack, and redo() with an empty redo stack, change
\* neither stack, nor the counter, nor the geometry.
C34_UndoRedoMoveTop == [][C34_Step]_vars

C34_Witness ==
    /\ obs.op = "redo"
    /\ obs.acted
    /\ Len(history) = 1
    /\ Len(redoHistory) = 1
    /\ saveStepCounter = 2

\* an execute call under the one title of the merge-window specification. Merged: the
\* pending entry stays, with the time of this call. The window is measured from the
\* pending entry's time, which is the time of the last command merged into it: a command
\* on the same objects less than mergeTimeout later is merged, however long ago the
\* first command of the entry was executed. A merge attempt that does not succeed
\* commits the pending entry and makes the new command pending, with the time of the call.
C33_Step ==
    (track'.nExec = track.nExec + 1) =>
        LET c == obs'.command
        IN  /\ (obs'.merge = "true") =>
                   /\ lastExecution'.time = now
                   /\ lastExecution'.command.aux.sn = lastExecution.command.aux.sn
                   /\ lastExecution'.command.aux.merges = lastExecution.command.aux.merges + 1
                   /\ history' = history
            /\ (lastExecution # None /\ isMergeable(c)
                    /\ SameTargets(lastExecution.command, c)
                    /\ now - lastExecution.time < obs'.mergeTimeout) =>
                   obs'.merge = "true"
            /\ (obs'.merge \in {"false", "throw"}) =>
                   /\ lastExecution'.command.aux.sn = c.aux.sn
                   /\ lastExecution'.command.aux.merges = 0
                   /\ lastExecution'.time = now
                   /\ history' # <<>>
                   /\ history'[Len(history')].aux.sn = lastExecution.command.aux.sn

\* C33: the merge window slides: every successful merge resets the pending entry's
\* timestamp to the time of the merged command, so same-title mergeable commands each
\* executed less than mergeTimeout after its predecessor become one undo step even when
\* the time since the first exceeds mergeTimeout; a failed merge attempt starts a new
\* pending entry with its own timestamp.
C33_MergeWindowSlides ==
    [](obs.op = "execute" /\ obs.merge = "true" => lastExecution.time = now)
        /\ [][C33_Step]_vars

\* whether drags a and b have the same main control and the same followers in order
C32_SameDrag(a, b) ==
    /\ a.main = b.main
    /\ Len(a.followers) = Len(b.followers)
    /\ \A i \in 1..Len(a.followers) : a.followers[i] = b.followers[i]

\* a drag executed while a drag is pending and the merge window is open: merged exactly
\* when it is the same drag; else the pending drag goes to the undo stack as it was and
\* the new drag becomes pending
C32_Merges ==
    (track'.nExec = track.nExec + 1 /\ lastExecution # None /\ obs'.merge # "none"
        /\ lastExecution.command.cls = "DragControls"
        /\ obs'.command.cls = "DragControls") =>
        LET this == lastExecution.command
            command == obs'.command
        IN  IF C32_SameDrag(this, command)
            THEN /\ obs'.merge = "true"
                 /\ lastExecution'.command.aux.sn = this.aux.sn
                 /\ history' = history
            ELSE /\ obs'.merge = "false"
                 /\ history' # <<>>
                 /\ history'[Len(history')] = this
                 /\ lastExecution'.command = command

\* undo() of a drag moves its main control back to `from` and its followers back by the
\* same translation, and no other control
C32_Reverts ==
    (obs'.op = "undo" /\ obs'.acted /\ now' = now
        /\ obs'.command.cls = "DragControls") =>
        LET c == obs'.command
        IN  \A k \in 1..Len(geo.ctl) :
                IF k = c.main THEN XY(geo', k) = c.from
                ELSE IF k \in Range(c.followers)
                THEN XY(geo', k) = VAdd(XY(geo, k), VSub(c.from, c.to))
                ELSE geo'.ctl[k] = geo.ctl[k]

\* C32: DragControls.merge succeeds only when the two drags have the identical main
\* control and follower lists of equal length holding the same objects in the same
\* order; otherwise it returns false and leaves the pending drag's destination as it
\* was, so the two drags are separate undo steps that each revert their own translation.
C32_DragMergeByIdentity == [][C32_Merges /\ C32_Reverts]_vars

C32_Witness ==
    /\ obs.op = "undo"
    /\ obs.acted
    /\ obs.command.cls = "DragControls"
    /\ obs.command.aux.merges = 0
    /\ history # <<>>
    /\ history[Len(history)].cls = "DragControls"
    /\ history[Len(history)].main = obs.command.main
    /\ Len(history[Len(history)].followers) = Len(obs.command.followers)
    /\ Range(history[Len(history)].followers) = Range(obs.command.followers)
    /\ history[Len(history)].followers # obs.command.followers
    /\ XY(geo, obs.command.main) = history[Len(history)].to

\* C35: ConvertSegment to LINEAR on a cubic segment of the path leaves exactly its two
\* end point objects as controls; undo() restores the four controls, same objects in the
\* same order, and redo() the two; ConvertSegment to CUBIC on a linear segment keeps the
\* two end point objects as first and last and adds two new interior controls, which
\* undo() removes and redo() puts back as the same objects.
C35_ConvertRoundTrip ==
    (obs.command # None /\ obs.command.cls = "ConvertSegment"
        /\ (obs.op = "execute" \/ (obs.op \in {"undo", "redo"} /\ obs.acted))
        /\ obs.command.segment \in Range(obs.command.aux.pre.pth[obs.command.path].segments))
        => LET c == obs.command
               before == c.aux.pre.seg[c.segment].controls
               now_ == geo.seg[c.segment].controls
           IN  /\ (c.variant = "LINEAR" /\ Len(before) = 4) =>
                     IF obs.op = "undo" THEN now_ = before
                     ELSE now_ = <<before[1], before[4]>>
               /\ (c.variant = "CUBIC" /\ Len(before) = 2) =>
                     IF obs.op = "undo" THEN now_ = before
                     ELSE /\ Len(now_) = 4
                          /\ now_[1] = before[1]
                          /\ now_[4] = before[2]
                          /\ {now_[2], now_[3]} \cap DOMAIN c.aux.pre.ctl = {}
                          /\ now_[2] # now_[3]
                          /\ ~geo.ctl[now_[2]].isEnd /\ ~geo.ctl[now_[3]].isEnd
                          /\ (obs.op = "redo") => now_ = obs.expect.seg[c.segment].controls

C35_Witness ==
    /\ obs.op = "redo"
    /\ obs.acted
    /\ obs.command.cls = "ConvertSegment"
    /\ obs.command.variant = "CUBIC"
    /\ Len(obs.command.previousControls) = 2
    /\ Len(geo.seg[obs.command.segment].controls) = 4
    /\ Len(geo.pth[obs.command.path].segments) = 3

\* the end points of path p in graph g, in path order
C31_EndSeq(g, p) == SelectSeq(PathControls(g, p), LAMBDA e : g.ctl[e].isEnd)

\* the end points of path p that command c was given to remove
C31_Named(c, p) ==
    {c.removalEndControls[i].control :
        i \in {j \in 1..Len(c.removalEndControls) : c.removalEndControls[j].path = p}}

\* path p has the segments and every segment the controls it has in graph v
C31_SameAs(g, v, p) ==
    /\ g.pth[p].segments = v.pth[p].segments
    /\ \A s \in Range(g.pth[p].segments) : g.seg[s].controls = v.seg[s].controls

\* C31: for any set of end points of a path removed by one RemovePathsAndEndControls
\* command that leaves at least two end points, the path's end point sequence after
\* execute() is the original sequence without the named controls, in order; undo()
\* restores the segment list and every segment's controls, so every last control and all
\* sharing; redo() reproduces the state execute() left.
C31_RemoveEndPointsRoundTrip ==
    (obs.command # None /\ obs.command.cls = "RemovePathsAndEndControls"
        /\ (obs.op = "execute" \/ (obs.op \in {"undo", "redo"} /\ obs.acted)))
        => LET c == obs.command
               pre == c.aux.pre
           IN  \A p \in Range(pre.paths) \ Range(c.removalPaths) :
                   LET left == SelectSeq(C31_EndSeq(pre, p),
                                         LAMBDA e : e \notin C31_Named(c, p))
                   IN  (C31_Named(c, p) # {} /\ Len(left) >= 2) =>
                           IF obs.op = "undo"
                           THEN C31_SameAs(geo, pre, p) /\ C26_Linked(geo, p)
                           ELSE /\ C31_EndSeq(geo, p) = left
                                /\ C26_Linked(geo, p)
                                /\ (obs.op = "redo") => C31_SameAs(geo, obs.expect, p)

C31_Witness ==
    /\ obs.op = "redo"
    /\ obs.acted
    /\ obs.command.cls = "RemovePathsAndEndControls"
    /\ Len(obs.command.affectedSegments) = 3
    /\ Len(C31_EndSeq(obs.command.aux.pre, 1)) = 5
    /\ Len(C31_EndSeq(geo, 1)) = 2

====
